---- MODULE Spec2Model ----
(***************************************************************************)
(* Verification model of minecraft-docker-manager-lib.                     *)
(*                                                                         *)
(* Several machines share the module, each with its own specification:     *)
(*   SpecValidator  - ComposeFile.from_dict, MCComposeFile construction    *)
(*                    and its accessors, over a bounded set of documents;  *)
(*   SpecFold       - MCInstance.get_status polling five mocked probes;    *)
(*   SpecLifecycle  - one MCInstance driven by a single agent against the  *)
(*                    project directory and the container runtime;         *)
(*   SpecLog        - get_logs_from_file against a log that grows;         *)
(*   SpecWatcher    - the directory watcher: scan, table, notifications;   *)
(*   SpecPorts      - the shorthand converters and their round trip;       *)
(*   SpecStats      - the parsers of net/dev, memory.stat and io.stat,     *)
(*                    and read_cgroup_stats over the two cgroup files;     *)
(*   SpecRegistry   - DockerMCManager.get_all_server_names over the        *)
(*                    entries of the servers root;                         *)
(*   SpecAgents     - remove() and get_status() await by await, with a     *)
(*                    second agent acting in between;                      *)
(*   SpecFresh      - the lifecycle from a server with no directory;       *)
(*   SpecLogRotate  - the log machine on a file that is also replaced;     *)
(*   SpecServe      - the watcher and requests of GET /all_servers;        *)
(*   SpecDelivery   - notify_clients with subscribers that come and go.    *)
(*                                                                         *)
(* Text is modelled as follows.  A container name is a sequence of         *)
(* characters, so that startswith("mc-") and [3:] are computed.  An image  *)
(* reference is a sequence of chunks, `x in image` being the presence of   *)
(* the chunk x.  A port shorthand string is a sequence of tokens, the      *)
(* separators ":" and "/" being tokens of their own.  An optional value is *)
(* a sequence of length at most one: <<>> is Python's None.                *)
(***************************************************************************)
EXTENDS Integers, Sequences, FiniteSets, TLC

VARIABLES
    raw,          \* validator: the parsed YAML mapping handed to ComposeFile.from_dict
    compose,      \* validator: result of ComposeFile.from_dict
    mc,           \* validator: result of MCComposeFile(compose_obj)
    ret,          \* validator: outcome of the last accessor call
    edits,        \* validator: edits made to the ports after construction
    probes,       \* fold: what the five mocked probes answer
    status_pc,    \* fold: position of get_status in its chain of probes
    status_ret,   \* fold: value returned by get_status
    polled,       \* fold: the probes get_status has awaited in this call
    calls,        \* fold: number of completed get_status calls
    project_dir,  \* lifecycle: does <servers>/<name> exist
    files,        \* lifecycle: content of each recognized compose file name
    data_dir,     \* lifecycle: does <servers>/<name>/data exist
    container,    \* lifecycle: "none", "exited" or "running"
    health,       \* lifecycle: "none", "starting", "healthy" or "unhealthy"
    pc,           \* lifecycle: "idle", or where wait_until_healthy stands
    last,         \* lifecycle: the last call of the agent and how it ended
    fresh,        \* lifecycle: nothing happened since the last call returned
    script,       \* lifecycle: how far the run follows the test's lifecycle
    polls,        \* lifecycle: healthy() polls of the current wait, oldest first
    log,          \* log: the bytes of data/logs/latest.log
    reader,       \* log: the get_logs_from_file call in progress or last made
    chain,        \* log: what a caller feeding pointers back has received
    given,        \* parsers: the input handed to a parser
    result,       \* parsers: what the parser made of it
    again,        \* parsers: the result serialized and parsed once more
    watch,        \* watcher: the sub-directories of the watched root
    table,        \* watcher: the servers table of the database
    monitor,      \* watcher: the locals of monitor() and where it stands
    clients,      \* watcher: each websocket: "absent", "open" or "closed"
    servers_root, \* registry: what each entry of the servers root holds
    listing,      \* registry: outcome of the last get_all_server_names
    server,       \* agents: the project directory and container two agents share
    remover,      \* agents: where one agent's remove() stands, or how it ended
    asker,        \* agents: one agent's get_status(): position, result, statuses had
    rotated,      \* rotation: the last replacement of latest.log, if any
    served,       \* http: the last answer of GET /all_servers and when it was read
    iterating     \* delivery: the iterator of notify_clients over ws_clients, while it runs

validator_vars == <<raw, compose, mc, ret, edits>>
fold_vars      == <<probes, status_pc, status_ret, polled, calls>>
lifecycle_vars == <<project_dir, files, data_dir, container, health, pc, last,
                    fresh, script, polls>>
log_vars == <<log, reader, chain>>
watcher_vars == <<watch, table, monitor, clients>>
parser_vars == <<given, result, again>>
registry_vars == <<servers_root, listing>>
agents_vars == <<server, remover, asker>>
rotation_vars == <<rotated>>
http_vars == <<served>>
delivery_vars == <<iterating>>
vars == <<validator_vars, fold_vars, lifecycle_vars, log_vars, watcher_vars,
          parser_vars, registry_vars, agents_vars, rotation_vars, http_vars,
          delivery_vars>>

\* What a replacement of the log file leaves alone.
beside_log_rotation == <<validator_vars, fold_vars, lifecycle_vars,
          watcher_vars, parser_vars, registry_vars, agents_vars, http_vars,
          delivery_vars>>

\* What an answer of GET /all_servers leaves alone.
beside_watcher_http == <<validator_vars, fold_vars, lifecycle_vars, log_vars,
          parser_vars, registry_vars, agents_vars, rotation_vars,
          delivery_vars>>

\* What a delivery to subscribers that come and go leaves alone.
beside_watcher_delivery == <<validator_vars, fold_vars, lifecycle_vars, log_vars,
          parser_vars, registry_vars, agents_vars, rotation_vars, http_vars>>

\* What a step of one machine leaves alone: the other machines.
beside_validator == <<fold_vars, lifecycle_vars, log_vars, watcher_vars,
          parser_vars, registry_vars, agents_vars, rotation_vars, http_vars,
          delivery_vars>>
beside_fold == <<validator_vars, lifecycle_vars, log_vars, watcher_vars,
          parser_vars, registry_vars, agents_vars, rotation_vars, http_vars,
          delivery_vars>>
beside_lifecycle == <<validator_vars, fold_vars, log_vars, watcher_vars,
          parser_vars, registry_vars, agents_vars, rotation_vars, http_vars,
          delivery_vars>>
beside_log == <<validator_vars, fold_vars, lifecycle_vars, watcher_vars,
          parser_vars, registry_vars, agents_vars, rotation_vars, http_vars,
          delivery_vars>>
beside_watcher == <<validator_vars, fold_vars, lifecycle_vars, log_vars,
          parser_vars, registry_vars, agents_vars, rotation_vars, http_vars,
          delivery_vars>>
beside_parser == <<validator_vars, fold_vars, lifecycle_vars, log_vars,
          watcher_vars, registry_vars, agents_vars, rotation_vars, http_vars,
          delivery_vars>>
beside_registry == <<validator_vars, fold_vars, lifecycle_vars, log_vars,
          watcher_vars, parser_vars, agents_vars, rotation_vars, http_vars,
          delivery_vars>>
beside_agents == <<validator_vars, fold_vars, lifecycle_vars, log_vars,
          watcher_vars, parser_vars, registry_vars, rotation_vars, http_vars,
          delivery_vars>>
beside_rotation == <<validator_vars, fold_vars, lifecycle_vars, log_vars,
          watcher_vars, parser_vars, registry_vars, agents_vars, http_vars,
          delivery_vars>>
beside_http == <<validator_vars, fold_vars, lifecycle_vars, log_vars,
          watcher_vars, parser_vars, registry_vars, agents_vars,
          rotation_vars, delivery_vars>>
beside_delivery == <<validator_vars, fold_vars, lifecycle_vars, log_vars,
          watcher_vars, parser_vars, registry_vars, agents_vars,
          rotation_vars, http_vars>>

----------------------------------------------------------------------------
(* Optional values and text.                                               *)

None == <<>>
Some(x) == <<x>>

Chars(name) ==
    CASE name = "foo" -> <<"f", "o", "o">>
      [] name = "bar" -> <<"b", "a", "r">>
      [] name = "mc-" -> <<"m", "c", "-">>
      [] name = "mc"  -> <<"m", "c">>
      [] name = "wrong-name" -> <<"w", "r", "o", "n", "g", "-", "n", "a", "m", "e">>
      [] name = ""    -> <<>>

\* str.startswith
startswith(s, prefix) ==
    /\ Len(s) >= Len(prefix)
    /\ SubSeq(s, 1, Len(prefix)) = prefix

\* s[n:]
slice_from(s, n) == SubSeq(s, n + 1, Len(s))

\* Decimal text of the port numbers the model uses, for str() and int().
NumTable ==
    { <<25565, "25565">>, <<25575, "25575">>, <<9999, "9999">>, <<9998, "9998">> }

NumStrings == { p[2] : p \in NumTable }
RangeStrings == { "8000-9000", "25565-25566" }

IntToStr(n) == (CHOOSE p \in NumTable : p[1] = n)[2]
StrToInt(s) == (CHOOSE p \in NumTable : p[2] = s)[1]

\* A port value as pydantic keeps it: Ports.target is int | str | None and
\* Ports.published is str | int | None.
IntV(n) == [t |-> "int", n |-> n, s |-> ""]
StrV(s) == [t |-> "str", n |-> 0, s |-> s]

\* str(x) of an optional port value
PyStr(o) ==
    IF o = None THEN "None"
    ELSE IF o[1].t = "int" THEN IntToStr(o[1].n) ELSE o[1].s

\* int(x) of a port value: a ValueError for text that is no decimal number
PyInt(v) ==
    IF v.t = "int" THEN [tag |-> "ok", value |-> v.n]
    ELSE IF v.s \in NumStrings THEN [tag |-> "ok", value |-> StrToInt(v.s)]
    ELSE [tag |-> "raise", value |-> 0]

Ports(host_ip, published, target, protocol) ==
    [host_ip |-> host_ip, published |-> published, target |-> target,
     protocol |-> protocol]

----------------------------------------------------------------------------
(* ComposeFile: normalization of the shorthand forms (docker/compose_file). *)

RECURSIVE SplitOn(_, _)
\* str.split(sep) on a sequence of tokens: the runs of tokens between separators
SplitOn(s, sep) ==
    IF s = <<>> THEN << <<>> >>
    ELSE LET rest == SplitOn(Tail(s), sep)
         IN  IF Head(s) = sep THEN << <<>> >> \o rest
             ELSE << <<Head(s)>> \o rest[1] >> \o Tail(rest)

\* int(x) of a float given in tenths: 3000.5 is 30005 and becomes 3000
int_of_tenths(tenths) == tenths \div 10

\* A part is a port only if it is one number.
IsPortPart_numbers_only(part) == Len(part) = 1 /\ part[1] \in NumStrings

\* a colon-separated part that is a number or a lo-hi range
IsPortPart(part) == Len(part) = 1 /\ part[1] \in NumStrings \cup RangeStrings

PortOk(p) == [tag |-> "ok", port |-> p]
PortError == [tag |-> "raise", port |-> Ports(None, None, None, None)]

\* One entry of a service's ports list: shorthand text, a bare number, or a
\* Ports object.  Text is split on "/" for the protocol, then on ":"; the number
\* of parts selects target, published:target or host_ip:published:target.
convert_str_port_to_obj(entry) ==
    IF entry.tag = "obj" THEN PortOk(entry.p)
    ELSE IF entry.tag = "num" THEN
        PortOk(Ports(None, None, Some(StrV(IntToStr(entry.n))), None))
    ELSE IF entry.tag = "flt" THEN
        PortOk(Ports(None, None, Some(StrV(IntToStr(int_of_tenths(entry.n)))), None))
    ELSE
        LET bySlash == SplitOn(entry.s, "/")
            parts == SplitOn(bySlash[1], ":")
            protocol == IF Len(bySlash) = 2 THEN Some(bySlash[2][1]) ELSE None
        IN  IF Len(bySlash) > 2 \/ (Len(bySlash) = 2 /\ Len(bySlash[2]) # 1)
            THEN PortError
            ELSE IF Len(parts) = 1 /\ IsPortPart(parts[1]) THEN
                PortOk(Ports(None, None, Some(StrV(parts[1][1])), protocol))
            ELSE IF Len(parts) = 2 /\ IsPortPart(parts[1]) /\ IsPortPart(parts[2]) THEN
                PortOk(Ports(None, Some(StrV(parts[1][1])), Some(StrV(parts[2][1])),
                             protocol))
            ELSE IF /\ Len(parts) = 3 /\ Len(parts[1]) = 1
                    /\ IsPortPart(parts[2]) /\ IsPortPart(parts[3]) THEN
                PortOk(Ports(Some(parts[1][1]), Some(StrV(parts[2][1])),
                             Some(StrV(parts[3][1])), protocol))
            ELSE PortError

\* Environment values: text, or a YAML scalar that is not text (20, true).
EnvStr(s) == [t |-> "str", s |-> s]
EnvNum(s) == [t |-> "num", s |-> s]

NoEnv == [tag |-> "none", items |-> <<>>, map |-> <<>>]
EnvList(items) == [tag |-> "list", items |-> items, map |-> <<>>]
EnvDict(map) == [tag |-> "dict", items |-> <<>>, map |-> map]

\* A list of "KEY=VALUE" entries becomes a mapping (the last entry of a key
\* wins); a mapping passes through; no environment stays None.
expand_environment(env) ==
    IF env.tag = "none" THEN None
    ELSE IF env.tag = "dict" THEN Some(env.map)
    ELSE LET keys == { env.items[i][1] : i \in 1..Len(env.items) }
             lastOf(k) == CHOOSE i \in 1..Len(env.items) :
                            /\ env.items[i][1] = k
                            /\ \A j \in 1..Len(env.items) :
                                 env.items[j][1] = k => j <= i
         IN  Some([k \in keys |-> EnvStr(env.items[lastOf(k)][3])])

\* The ports of a service, each entry converted, or the first failure.
expand_ports(ports) ==
    IF ports = None THEN [tag |-> "ok", ports |-> None]
    ELSE LET conv == [i \in 1..Len(ports[1]) |-> convert_str_port_to_obj(ports[1][i])]
         IN  IF \E i \in 1..Len(conv) : conv[i].tag = "raise"
             THEN [tag |-> "raise", ports |-> None]
             ELSE [tag |-> "ok", ports |-> Some([i \in 1..Len(conv) |-> conv[i].port])]

\* ComposeFile.from_dict: the document with every service's ports and
\* environment in canonical form, or ValueError for a port it cannot parse.
from_dict(doc) ==
    IF doc.services = None THEN [tag |-> "ok", services |-> None]
    ELSE LET svcs == doc.services[1]
         IN  IF \E n \in DOMAIN svcs : expand_ports(svcs[n].ports).tag = "raise"
             THEN [tag |-> "raise", services |-> None]
             ELSE [tag |-> "ok",
                   services |-> Some([n \in DOMAIN svcs |->
                       [container_name |-> svcs[n].container_name,
                        image |-> svcs[n].image,
                        environment |-> expand_environment(svcs[n].environment),
                        ports |-> expand_ports(svcs[n].ports).ports]])]

----------------------------------------------------------------------------
(* MCComposeFile: the Minecraft-shaped validator (mc_compose_file.py).     *)

ITZG_IMAGE == "itzg/minecraft-server"
MC_PREFIX == Chars("mc-")

NoService ==
    [container_name |-> None, image |-> None, environment |-> None, ports |-> None]

Invalid(msg) == [tag |-> "error", msg |-> msg, service |-> NoService]
Valid(service) == [tag |-> "ok", msg |-> "", service |-> service]

\* The loop over the ports: `if str(port.target) == "25565" ... elif ... "25575"`.
has_game_port(ports) ==
    \E i \in 1..Len(ports) : PyStr(ports[i].target) = "25565"
has_rcon_port(ports) ==
    \E i \in 1..Len(ports) :
        PyStr(ports[i].target) # "25565" /\ PyStr(ports[i].target) = "25575"

\* The two checks in the other order: what a reordering of the code would do.
validate_ports_rcon_first(ports) ==
    IF ~has_rcon_port(ports)
    THEN "Could not find rcon port (25575) in compose file"
    ELSE IF ~has_game_port(ports)
    THEN "Could not find game port (25565) in compose file"
    ELSE ""

\* The message of the first required port that is missing, "" if both are there.
validate_ports(ports) ==
    IF ~has_game_port(ports)
    THEN "Could not find game port (25565) in compose file"
    ELSE IF ~has_rcon_port(ports)
    THEN "Could not find rcon port (25575) in compose file"
    ELSE ""

\* MCComposeFile._validate_and_convert_services: the first failing check
\* raises; otherwise the mc service is returned as an MCService.
validate_and_convert_services(compose_obj) ==
    IF compose_obj.services = None
    THEN Invalid("Could not find services in compose file")
    ELSE IF "mc" \notin DOMAIN compose_obj.services[1]
    THEN Invalid("Could not find service mc in compose file")
    ELSE
      LET mc_service == compose_obj.services[1]["mc"] IN
      IF mc_service.container_name = None
      THEN Invalid("Invalid container name in compose file")
      ELSE IF ~startswith(mc_service.container_name[1], MC_PREFIX)
      THEN Invalid("Container name must start with 'mc-'")
      ELSE IF \/ mc_service.image = None
              \/ ~(\E i \in 1..Len(mc_service.image[1]) :
                      mc_service.image[1][i] = ITZG_IMAGE)
      THEN Invalid("Service must use itzg/minecraft-server image")
      ELSE IF mc_service.environment = None
      THEN Invalid("Invalid environment in compose file")
      ELSE IF "VERSION" \notin DOMAIN mc_service.environment[1]
      THEN Invalid("Could not find VERSION in environment")
      ELSE IF mc_service.ports = None
      THEN Invalid("Could not find ports in compose file")
      ELSE IF validate_ports(mc_service.ports[1]) # ""
      THEN Invalid(validate_ports(mc_service.ports[1]))
      ELSE Valid(mc_service)

\* pydantic's validation of the `services: MCServices` field: MCService
\* declares environment: Dict[str, str], and a value that is not text is not
\* coerced to text.
services_field_valid(service) ==
    \A k \in DOMAIN service.environment[1] : service.environment[1][k].t = "str"

\* MCComposeFile.__init__: the checks above, then BaseModel.__init__ on the
\* converted services.  Every failure is a ValueError.
MCComposeFile(compose_obj) ==
    LET validated_services == validate_and_convert_services(compose_obj)
    IN  IF validated_services.tag = "error" THEN validated_services
        ELSE IF ~services_field_valid(validated_services.service)
        THEN Invalid("validation error for MCComposeFile")
        ELSE validated_services

Returned(fn, name, text, num) ==
    [fn |-> fn, tag |-> "ok", name |-> name, text |-> text, num |-> num]
Raised(fn) == [fn |-> fn, tag |-> "raise", name |-> <<>>, text |-> "", num |-> 0]
NoCall == [fn |-> "", tag |-> "none", name |-> <<>>, text |-> "", num |-> 0]

\* container_name[3:]
get_server_name(service) ==
    Returned("get_server_name", slice_from(service.container_name[1], 3), "", 0)

\* environment["VERSION"]
get_game_version(service) ==
    IF "VERSION" \in DOMAIN service.environment[1]
    THEN Returned("get_game_version", <<>>, service.environment[1]["VERSION"].s, 0)
    ELSE Raised("get_game_version")

\* The loop keeping the last port whose target is `target` instead of
\* returning at the first.
published_port_of_last_match(fn, service, target) ==
    LET ports == service.ports[1]
        hits == { i \in 1..Len(ports) : PyStr(ports[i].target) = IntToStr(target) }
    IN  IF hits = {} THEN Raised(fn)
        ELSE LET port == ports[CHOOSE i \in hits : \A j \in hits : i >= j]
             IN  IF port.published = None THEN Returned(fn, <<>>, "", target)
                 ELSE IF PyInt(port.published[1]).tag = "raise" THEN Raised(fn)
                 ELSE Returned(fn, <<>>, "", PyInt(port.published[1]).value)

\* The first port whose target is `target`: its published port, or the target
\* itself when none is published; ValueError when there is no such port.
published_port_of(fn, service, target) ==
    LET ports == service.ports[1]
        hits == { i \in 1..Len(ports) : PyStr(ports[i].target) = IntToStr(target) }
    IN  IF hits = {} THEN Raised(fn)
        ELSE LET port == ports[CHOOSE i \in hits : \A j \in hits : i <= j]
             IN  IF port.published = None THEN Returned(fn, <<>>, "", target)
                 ELSE IF PyInt(port.published[1]).tag = "raise" THEN Raised(fn)
                 ELSE Returned(fn, <<>>, "", PyInt(port.published[1]).value)

get_game_port(service) == published_port_of("get_game_port", service, 25565)
get_rcon_port(service) == published_port_of("get_rcon_port", service, 25575)

----------------------------------------------------------------------------
(* MCInstance.get_status: the fold of the five probes (instance.py).       *)

ProbeNames == <<"exists", "created", "running", "starting", "healthy">>

Return(status) == [done |-> TRUE, status |-> status, next |-> "done"]
Goto(next) == [done |-> FALSE, status |-> "", next |-> next]

\* The chain with the last two probes exchanged: healthy() asked before
\* starting().
get_status_step_healthy_first(at, answer) ==
    CASE at = "exists"   -> IF ~answer THEN Return("REMOVED") ELSE Goto("created")
      [] at = "created"  -> IF ~answer THEN Return("EXISTS") ELSE Goto("running")
      [] at = "running"  -> IF ~answer THEN Return("CREATED") ELSE Goto("healthy")
      [] at = "healthy"  -> IF answer THEN Return("HEALTHY") ELSE Goto("starting")
      [] at = "starting" -> IF answer THEN Return("STARTING") ELSE Return("RUNNING")

\* One `if` of get_status: the probe `at` has answered; either a status is
\* returned or the next probe is awaited.
get_status_step(at, answer) ==
    CASE at = "exists"   -> IF ~answer THEN Return("REMOVED") ELSE Goto("created")
      [] at = "created"  -> IF ~answer THEN Return("EXISTS") ELSE Goto("running")
      [] at = "running"  -> IF ~answer THEN Return("CREATED") ELSE Goto("starting")
      [] at = "starting" -> IF answer THEN Return("STARTING") ELSE Goto("healthy")
      [] at = "healthy"  -> IF ~answer THEN Return("RUNNING") ELSE Return("HEALTHY")

RECURSIVE run_get_status(_, _)
\* get_status run to its return against answers that do not change meanwhile
run_get_status(at, answers) ==
    LET step == get_status_step(at, answers[at])
    IN  IF step.done THEN step.status ELSE run_get_status(step.next, answers)

----------------------------------------------------------------------------
(* Bounds.                                                                 *)

MaxPorts == 2      \* longest ports list of a document
MaxCalls == 2      \* get_status calls against mocked probes
MaxPolls == 2      \* healthy() polls and sleeps of one wait that are counted
MaxEdits == 2      \* edits of a constructed model's ports
MaxLogLines == 2   \* lines in latest.log
MaxReads == 2      \* get_logs_from_file calls of one run
MaxRotations == 1  \* replacements of latest.log in one run

----------------------------------------------------------------------------
(* The validator machine.                                                  *)

FOO == Chars("foo")
BAR == Chars("bar")

Shorthand(tokens) ==
    [tag |-> "str", s |-> tokens, n |-> 0, p |-> Ports(None, None, None, None)]
PortObject(ports) == [tag |-> "obj", s |-> <<>>, n |-> 0, p |-> ports]

\* The six shorthand grammars around the two required targets, a published
\* range in front of a single target, a Ports object with an integer target
\* and no published port, and text that is no port.
PortEntries ==
    { Shorthand(<<"25565">>),
      Shorthand(<<"25565-25566">>),
      Shorthand(<<"9999", ":", "25565">>),
      Shorthand(<<"8000-9000", ":", "25565">>),
      Shorthand(<<"25565-25566", ":", "25565-25566">>),
      Shorthand(<<"127.0.0.1", ":", "9998", ":", "25575">>),
      Shorthand(<<"9998", ":", "25575", "/", "tcp">>),
      PortObject(Ports(None, None, Some(IntV(25575)), None)),
      Shorthand(<<"invalid-port-format">>) }

PortLists == UNION { [1..n -> PortEntries] : n \in 0..MaxPorts }

ContainerNames ==
    { None, Some(MC_PREFIX \o FOO), Some(Chars("wrong-name")), Some(MC_PREFIX) }

Images ==
    { None, Some(<<"wrong/image", ":latest">>), Some(<<ITZG_IMAGE, ":java21">>) }

Environments ==
    { NoEnv,
      EnvList(<< <<"VERSION", "=", "1.19.4">>, <<"VERSION", "=", "1.20.4">> >>),
      EnvDict("EULA" :> EnvStr("true")),
      EnvDict("VERSION" :> EnvStr("1.20.4")),
      EnvDict(("VERSION" :> EnvStr("1.20.4")) @@ ("MAX_PLAYERS" :> EnvNum("20"))) }

RawServices ==
    [container_name : ContainerNames, image : Images, environment : Environments,
     ports : {None} \cup { Some(l) : l \in PortLists }]

WebService ==
    [container_name |-> None, image |-> None, environment |-> NoEnv, ports |-> None]

Documents ==
    { [services |-> None], [services |-> Some("web" :> WebService)] }
        \cup { [services |-> Some("mc" :> svc)] : svc \in RawServices }

NotBuilt == [tag |-> "unbuilt", services |-> None]
NotConstructed == [tag |-> "unbuilt", msg |-> "", service |-> NoService]

\* compose_obj = ComposeFile.from_dict(raw)
FromDict ==
    /\ compose.tag = "unbuilt"
    /\ compose' = from_dict(raw)
    /\ UNCHANGED <<raw, mc, ret, edits>>
    /\ UNCHANGED beside_validator

\* mc_compose = MCComposeFile(compose_obj)
Construct ==
    /\ compose.tag = "ok"
    /\ mc.tag = "unbuilt"
    /\ mc' = MCComposeFile(compose)
    /\ UNCHANGED <<raw, compose, ret, edits>>
    /\ UNCHANGED beside_validator

CallGetServerName ==
    /\ mc.tag = "ok"
    /\ ret' = get_server_name(mc.service)
    /\ UNCHANGED <<raw, compose, mc, edits>>
    /\ UNCHANGED beside_validator

CallGetGameVersion ==
    /\ mc.tag = "ok"
    /\ ret' = get_game_version(mc.service)
    /\ UNCHANGED <<raw, compose, mc, edits>>
    /\ UNCHANGED beside_validator

CallGetGamePort ==
    /\ mc.tag = "ok"
    /\ ret' = get_game_port(mc.service)
    /\ UNCHANGED <<raw, compose, mc, edits>>
    /\ UNCHANGED beside_validator

CallGetRconPort ==
    /\ mc.tag = "ok"
    /\ ret' = get_rcon_port(mc.service)
    /\ UNCHANGED <<raw, compose, mc, edits>>
    /\ UNCHANGED beside_validator

\* The owner edits the ports of the constructed model, which stays mutable.
Edited(ports) ==
    /\ mc.tag = "ok"
    /\ edits < MaxEdits
    /\ mc' = [mc EXCEPT !.service.ports = Some(ports)]
    /\ edits' = edits + 1
    /\ ret' = NoCall
    /\ UNCHANGED <<raw, compose>>
    /\ UNCHANGED beside_validator

\* mc_compose.services["mc"]["ports"] = []
EditClearPorts == Edited(<<>>)

\* port.published = None for the ports whose target is 25565 or 25575
EditUnpublish ==
    LET ports == mc.service.ports[1]
    IN  Edited([i \in 1..Len(ports) |->
                  IF PyStr(ports[i].target) \in {"25565", "25575"}
                  THEN [ports[i] EXCEPT !.published = None]
                  ELSE ports[i]])

\* Ports objects the owner may put in front of the list.
EditPorts ==
    { Ports(None, Some(StrV("9999")), Some(IntV(25565)), None),
      Ports(None, None, Some(StrV("25575")), None) }

\* mc_compose.services["mc"]["ports"].insert(0, port)
EditInsertPort == \E port \in EditPorts : Edited(<<port>> \o mc.service.ports[1])

NextValidator ==
    \/ FromDict
    \/ Construct
    \/ CallGetServerName
    \/ CallGetGameVersion
    \/ CallGetGamePort
    \/ CallGetRconPort
    \/ EditClearPorts
    \/ EditUnpublish
    \/ EditInsertPort

----------------------------------------------------------------------------
(* The get_status machine against mocked probes.                           *)

Answers == [ {ProbeNames[i] : i \in 1..Len(ProbeNames)} -> BOOLEAN ]

\* get_status awaits the probe it stands at and takes the matching branch.
Poll(name) ==
    /\ status_pc = name
    /\ polled' = Append(polled, name)
    /\ LET step == get_status_step(name, probes[name])
       IN  /\ status_pc' = step.next
           /\ status_ret' = step.status
           /\ calls' = IF step.done THEN calls + 1 ELSE calls
    /\ UNCHANGED probes
    /\ UNCHANGED beside_fold

PollExists == Poll("exists")
PollCreated == Poll("created")
PollRunning == Poll("running")
PollStarting == Poll("starting")
PollHealthy == Poll("healthy")

\* The caller sets the mocks anew and calls get_status again.
CallGetStatus ==
    /\ status_pc = "done"
    /\ calls < MaxCalls
    /\ probes' \in Answers
    /\ status_pc' = "exists"
    /\ status_ret' = ""
    /\ polled' = <<>>
    /\ UNCHANGED calls
    /\ UNCHANGED beside_fold

NextFold ==
    \/ PollExists
    \/ PollCreated
    \/ PollRunning
    \/ PollStarting
    \/ PollHealthy
    \/ CallGetStatus

----------------------------------------------------------------------------
(* The lifecycle machine.                                                  *)

\* The instance under test is MCInstance(servers_path, "foo").
NAME == FOO

\* get_compose_file_path tries these names in this order.
Candidates ==
    <<"docker-compose.yml", "docker-compose.yaml", "compose.yml", "compose.yaml">>

COMPOSE_YAML == 4     \* create writes Candidates[4]

YamlText(doc) == [tag |-> "yaml", doc |-> doc]
Malformed == [tag |-> "malformed", doc |-> [services |-> None]]

McDoc(name, env, ports) ==
    [services |-> Some("mc" :>
        [container_name |-> Some(MC_PREFIX \o name),
         image |-> Some(<<ITZG_IMAGE, ":java21-alpine">>),
         environment |-> env,
         ports |-> Some(ports)])]

VersionEnv == EnvDict(("EULA" :> EnvStr("true")) @@ ("VERSION" :> EnvStr("1.20.4")))

FooYaml ==
    YamlText(McDoc(FOO, VersionEnv,
        <<Shorthand(<<"9999", ":", "25565">>), Shorthand(<<"9998", ":", "25575">>)>>))
FooYamlDefaultPorts ==
    YamlText(McDoc(FOO, EnvList(<< <<"VERSION", "=", "1.20.4">> >>),
        <<Shorthand(<<"25565">>), Shorthand(<<"25575">>)>>))
BarYaml ==
    YamlText(McDoc(BAR, VersionEnv,
        <<Shorthand(<<"9999", ":", "25565">>), Shorthand(<<"9998", ":", "25575">>)>>))
NoVersionYaml ==
    YamlText(McDoc(FOO, EnvDict("EULA" :> EnvStr("true")),
        <<Shorthand(<<"9999", ":", "25565">>), Shorthand(<<"9998", ":", "25575">>)>>))
\* a compose file that is there before the manager is used on the directory
LegacyYaml == YamlText([services |-> Some("web" :> WebService)])

YamlInputs == { FooYaml, FooYamlDefaultPorts, BarYaml, NoVersionYaml, Malformed }

\* A lookup that knows only the name create writes.
get_compose_file_path_compose_yaml_only(fs) ==
    IF fs[COMPOSE_YAML] = None THEN 0 ELSE COMPOSE_YAML

\* MCInstance.get_compose_file_path: the first candidate that exists (0: None)
get_compose_file_path(fs) ==
    IF \A i \in 1..Len(Candidates) : fs[i] = None THEN 0
    ELSE CHOOSE i \in 1..Len(Candidates) :
            /\ fs[i] # None
            /\ \A j \in 1..Len(Candidates) : fs[j] # None => i <= j

\* MCInstance._verify_compose_yaml: every failure is swallowed into False.
verify_compose_yaml(name, compose_yaml) ==
    IF compose_yaml.tag = "malformed" THEN FALSE
    ELSE LET compose_obj == from_dict(compose_yaml.doc)
         IN  IF compose_obj.tag = "raise" THEN FALSE
             ELSE LET mc_compose == MCComposeFile(compose_obj)
                  IN  IF mc_compose.tag = "error" THEN FALSE
                      ELSE get_server_name(mc_compose.service).name = name

\* MCInstance.exists: the server has a compose file
exists(fs) == get_compose_file_path(fs) # 0

\* `docker compose ps -q` without --all: a stopped container is not listed.
created_running_only(c) == c = "running"

\* ComposeManager.created: `docker compose ps --all -q` lists a container
created(c) == c # "none"

\* `docker compose ps --all -q`: a stopped container counts as running.
running_or_stopped(c) == c # "none"

\* ComposeManager.running: `docker compose ps -q` lists a container
running(c) == c = "running"

\* ComposeManager.healthy: ps lists the service and its Health is "healthy"
healthy(c, h) == c = "running" /\ h = "healthy"

\* ComposeManager.starting: ps lists the service and its Health is "starting"
starting(c, h) == c = "running" /\ h = "starting"

\* What the five probes answer in the present state.
WorldAnswers ==
    [n \in {ProbeNames[i] : i \in 1..Len(ProbeNames)} |->
        CASE n = "exists" -> exists(files)
          [] n = "created" -> created(container)
          [] n = "running" -> running(container)
          [] n = "starting" -> starting(container, health)
          [] n = "healthy" -> healthy(container, health)]

\* get_status called now and run to its return
Status == run_get_status("exists", WorldAnswers)

\* test_server_status_lifecycle: the calls it makes, in order.
Script ==
    <<"create", "up", "wait_until_healthy", "restart", "stop", "down", "remove">>

OFF_SCRIPT == 0 - 1

Advance(op, outcome) ==
    IF script \in 0..(Len(Script) - 1) /\ outcome = "ok" /\ Script[script + 1] = op
    THEN script + 1
    ELSE OFF_SCRIPT

NoArg == [tag |-> "none", doc |-> [services |-> None]]
NoOp == [op |-> "", arg |-> NoArg, outcome |-> ""]
NoPolls == [count |-> 0, last |-> FALSE, sleeps |-> 0]
Saturate(n) == IF n < MaxPolls THEN n + 1 ELSE MaxPolls

\* A call of the agent, made with the argument arg, has returned or raised.
EndedWith(op, arg, outcome) ==
    /\ last' = [op |-> op, arg |-> arg, outcome |-> outcome]
    /\ fresh' = TRUE
    /\ script' = Advance(op, outcome)

Ended(op, outcome) == EndedWith(op, NoArg, outcome)

NoFiles == [i \in 1..Len(Candidates) |-> None]

\* A create that writes the file first and validates it afterwards.
create_write_first(compose_yaml) ==
    /\ pc = "idle"
    /\ project_dir' = TRUE
    /\ IF get_compose_file_path(files) # 0
       THEN /\ EndedWith("create", compose_yaml, "FileExistsError")
            /\ UNCHANGED <<files, data_dir>>
       ELSE /\ files' = [files EXCEPT ![COMPOSE_YAML] = Some(compose_yaml)]
            /\ data_dir' = TRUE
            /\ EndedWith("create", compose_yaml,
                         IF verify_compose_yaml(NAME, compose_yaml) THEN "ok"
                         ELSE "ValueError")
    /\ UNCHANGED <<container, health, pc, polls>>
    /\ UNCHANGED beside_lifecycle

\* MCInstance.create(compose_yaml)
create(compose_yaml) ==
    /\ pc = "idle"
    /\ IF ~verify_compose_yaml(NAME, compose_yaml)
       THEN /\ EndedWith("create", compose_yaml, "ValueError")
            /\ UNCHANGED <<project_dir, files, data_dir>>
       ELSE /\ project_dir' = TRUE
            /\ IF get_compose_file_path(files) # 0
               THEN /\ EndedWith("create", compose_yaml, "FileExistsError")
                    /\ UNCHANGED <<files, data_dir>>
               ELSE /\ files' = [files EXCEPT ![COMPOSE_YAML] = Some(compose_yaml)]
                    /\ data_dir' = TRUE
                    /\ EndedWith("create", compose_yaml, "ok")
    /\ UNCHANGED <<container, health, pc, polls>>
    /\ UNCHANGED beside_lifecycle

\* update_compose_file validating the YAML before it asks created().
update_compose_file_verify_first(compose_yaml) ==
    /\ pc = "idle"
    /\ IF ~verify_compose_yaml(NAME, compose_yaml)
       THEN /\ EndedWith("update_compose_file", compose_yaml, "ValueError")
            /\ UNCHANGED files
       ELSE IF created(container)
       THEN /\ EndedWith("update_compose_file", compose_yaml, "RuntimeError")
            /\ UNCHANGED files
       ELSE IF get_compose_file_path(files) = 0
       THEN /\ EndedWith("update_compose_file", compose_yaml, "FileNotFoundError")
            /\ UNCHANGED files
       ELSE /\ files' = [files EXCEPT ![get_compose_file_path(files)] =
                                          Some(compose_yaml)]
            /\ EndedWith("update_compose_file", compose_yaml, "ok")
    /\ UNCHANGED <<project_dir, data_dir, container, health, pc, polls>>
    /\ UNCHANGED beside_lifecycle

\* MCInstance.update_compose_file(compose_yaml)
update_compose_file(compose_yaml) ==
    /\ pc = "idle"
    /\ IF created(container)
       THEN /\ EndedWith("update_compose_file", compose_yaml, "RuntimeError")
            /\ UNCHANGED files
       ELSE IF ~verify_compose_yaml(NAME, compose_yaml)
       THEN /\ EndedWith("update_compose_file", compose_yaml, "ValueError")
            /\ UNCHANGED files
       ELSE IF get_compose_file_path(files) = 0
       THEN /\ EndedWith("update_compose_file", compose_yaml, "FileNotFoundError")
            /\ UNCHANGED files
       ELSE /\ files' = [files EXCEPT ![get_compose_file_path(files)] =
                                          Some(compose_yaml)]
            /\ EndedWith("update_compose_file", compose_yaml, "ok")
    /\ UNCHANGED <<project_dir, data_dir, container, health, pc, polls>>
    /\ UNCHANGED beside_lifecycle

\* MCInstance.remove; shutil.rmtree raises when the directory is not there.
remove ==
    /\ pc = "idle"
    /\ IF created(container)
       THEN /\ Ended("remove", "RuntimeError")
            /\ UNCHANGED <<project_dir, files, data_dir>>
       ELSE IF ~project_dir
       THEN /\ Ended("remove", "FileNotFoundError")
            /\ UNCHANGED <<project_dir, files, data_dir>>
       ELSE /\ project_dir' = FALSE
            /\ files' = NoFiles
            /\ data_dir' = FALSE
            /\ Ended("remove", "ok")
    /\ UNCHANGED <<container, health, pc, polls>>
    /\ UNCHANGED beside_lifecycle

\* One `docker compose` command of the agent.  The command fails (exec_command
\* raises RuntimeError, nothing changes) when the project has no compose file,
\* and may fail for reasons of its own; else the runtime is left in (c, h).
Compose(op, c, h) ==
    /\ pc = "idle"
    /\ \E cli_ok \in BOOLEAN :
         IF cli_ok /\ exists(files)
         THEN /\ container' = c
              /\ health' = h
              /\ Ended(op, "ok")
         ELSE /\ UNCHANGED <<container, health>>
              /\ Ended(op, "RuntimeError")
    /\ UNCHANGED <<project_dir, files, data_dir, pc, polls>>
    /\ UNCHANGED beside_lifecycle

\* MCInstance.up: `up -d` creates and starts the container; one that runs
\* already is left as it is.
up ==
    Compose("up", "running", IF container = "running" THEN health ELSE "starting")

\* MCInstance.down: the container is stopped and removed.
down == Compose("down", "none", "none")

\* MCInstance.start: a stopped container is started.
start ==
    Compose("start",
            IF container = "exited" THEN "running" ELSE container,
            IF container = "exited" THEN "starting" ELSE health)

\* stop issuing `down`: the container is removed.
stop_removes_container == Compose("stop", "none", "none")

\* MCInstance.stop: a running container is stopped and kept.
stop ==
    Compose("stop",
            IF container = "running" THEN "exited" ELSE container,
            IF container = "running" THEN "none" ELSE health)

\* MCInstance.restart: the container is stopped and started again.
restart ==
    Compose("restart",
            IF container # "none" THEN "running" ELSE container,
            IF container # "none" THEN "starting" ELSE health)

\* wait_until_healthy returning on running() alone, without the loop.
wait_returns_when_running(is_running, is_healthy) == is_running

\* The `while not await self.healthy()` test: the wait is over when the poll
\* says healthy.
wait_returns(is_running, is_healthy) == is_healthy

\* wait_until_healthy, `if not await self.running()`: raise, or enter the loop.
wait_begin ==
    /\ pc = "idle"
    /\ polls' = NoPolls
    /\ IF ~running(container)
       THEN /\ Ended("wait_until_healthy", "RuntimeError")
            /\ pc' = "idle"
       ELSE /\ pc' = "wait_poll"
            /\ fresh' = FALSE
            /\ UNCHANGED <<last, script>>
    /\ UNCHANGED <<project_dir, files, data_dir, container, health>>
    /\ UNCHANGED beside_lifecycle

\* wait_until_healthy, the loop test: one poll of healthy().
wait_poll ==
    /\ pc = "wait_poll"
    /\ polls' = [polls EXCEPT !.count = Saturate(polls.count),
                              !.last = healthy(container, health)]
    /\ IF wait_returns(running(container), healthy(container, health))
       THEN /\ pc' = "idle"
            /\ Ended("wait_until_healthy", "ok")
       ELSE /\ pc' = "wait_sleep"
            /\ UNCHANGED <<last, fresh, script>>
    /\ UNCHANGED <<project_dir, files, data_dir, container, health>>
    /\ UNCHANGED beside_lifecycle

\* wait_until_healthy, the loop body: asyncio.sleep(0.5)
wait_sleep ==
    /\ pc = "wait_sleep"
    /\ pc' = "wait_poll"
    /\ polls' = [polls EXCEPT !.sleeps = Saturate(polls.sleeps)]
    /\ UNCHANGED <<project_dir, files, data_dir, container, health, last, fresh,
                   script>>
    /\ UNCHANGED beside_lifecycle

\* The container's health check passes or fails.
HealthChanges ==
    /\ container = "running"
    /\ \E h \in {"healthy", "unhealthy"} :
         /\ h # health
         /\ health' = h
    /\ fresh' = FALSE
    /\ UNCHANGED <<project_dir, files, data_dir, container, pc, last, script, polls>>
    /\ UNCHANGED beside_lifecycle

\* The server process ends and the container stops.
ContainerExits ==
    /\ container = "running"
    /\ container' = "exited"
    /\ health' = "none"
    /\ fresh' = FALSE
    /\ UNCHANGED <<project_dir, files, data_dir, pc, last, script, polls>>
    /\ UNCHANGED beside_lifecycle

NextLifecycle ==
    \/ \E compose_yaml \in YamlInputs : create(compose_yaml)
    \/ \E compose_yaml \in YamlInputs : update_compose_file(compose_yaml)
    \/ remove
    \/ up
    \/ down
    \/ start
    \/ stop
    \/ restart
    \/ wait_begin
    \/ wait_poll
    \/ wait_sleep
    \/ HealthChanges
    \/ ContainerExits

----------------------------------------------------------------------------
(* Log tailing: MCInstance.get_logs_from_file and the chat extraction.     *)

\* latest.log is a sequence of bytes.  An ASCII character is one byte, named
\* by the character; "C3" "A9" are the two bytes of the UTF-8 character "é".
\* The k-th smallest element of a finite set of numbers.
Nth(set, k) == CHOOSE i \in set : Cardinality({ j \in set : j <= i }) = k

\* a byte that begins a character
starts_character(byte) == byte # "A9"

\* The strict utf8 decoding of open(..., encoding="utf8"): a continuation byte
\* without its lead byte, or a lead byte without its continuation, raises.
decode_utf8(bytes) ==
    LET n == Len(bytes)
        broken == { i \in 1..n :
                      \/ bytes[i] = "A9" /\ (i = 1 \/ bytes[i - 1] # "C3")
                      \/ bytes[i] = "C3" /\ (i = n \/ bytes[i + 1] # "A9") }
        firsts == SelectSeq(bytes, starts_character)
    IN  IF broken # {} THEN [tag |-> "raise", text |-> <<>>]
        ELSE [tag |-> "ok",
              text |-> [k \in 1..Len(firsts) |->
                          IF firsts[k] = "C3" THEN "é" ELSE firsts[k]]]

\* The offset the read starts at, from the argument and the measured size.
effective_start(start_arg, file_size) ==
    IF start_arg < 0
    THEN IF file_size + start_arg < 0 THEN 0 ELSE file_size + start_arg
    ELSE IF start_arg > file_size THEN 0
    ELSE start_arg

\* A pointer taken from the size measured before the read.
log_pointer_measured_size(at, bytes_read, file_size) == file_size

\* f.tell() after f.read(): the offset the read started at plus what it read.
log_pointer(at, bytes_read, file_size) == at + Len(bytes_read)

NOT_SECURE == <<"[", "N", "o", "t", " ", "S", "e", "c", "u", "r", "e", "]", " ">>

\* PLAYER_MESSAGE_PATTERN tried at position i of a line (a line has no "\n"):
\* "]: ", then "[Not Secure] " if it is there, then "<", the shortest player
\* up to "> ", and the rest of the line as the message.
match_at(line, i) ==
    IF ~(i + 2 <= Len(line) /\ SubSeq(line, i, i + 2) = <<"]", ":", " ">>)
    THEN <<>>
    ELSE LET p == i + 3
             j == IF /\ p + Len(NOT_SECURE) - 1 <= Len(line)
                     /\ SubSeq(line, p, p + Len(NOT_SECURE) - 1) = NOT_SECURE
                  THEN p + Len(NOT_SECURE) ELSE p
             closers == { k \in (j + 1)..(Len(line) - 1) :
                            line[k] = ">" /\ line[k + 1] = " " }
         IN  IF ~(j <= Len(line) /\ line[j] = "<") \/ closers = {} THEN <<>>
             ELSE LET k == CHOOSE c \in closers : \A d \in closers : c <= d
                  IN  << [player |-> SubSeq(line, j + 1, k - 1),
                          message |-> SubSeq(line, k + 2, Len(line))] >>

\* The leftmost match in a line; the message runs to the end of the line, so
\* a line holds at most one.
match_line(line) ==
    LET starts == { i \in 1..Len(line) : match_at(line, i) # <<>> }
    IN  IF starts = {} THEN <<>>
        ELSE match_at(line, CHOOSE i \in starts : \A j \in starts : i <= j)

RECURSIVE concat_matches(_)
concat_matches(lines) ==
    IF lines = <<>> THEN <<>>
    ELSE match_line(Head(lines)) \o concat_matches(Tail(lines))

\* MCInstance.parse_player_messages_from_log: finditer over the text
parse_player_messages_from_log(text) ==
    LET ends == { i \in 1..Len(text) : text[i] = "\n" } \cup {Len(text) + 1}
        line(k) == SubSeq(text,
                          IF k = 1 THEN 1 ELSE Nth(ends, k - 1) + 1,
                          Nth(ends, k) - 1)
    IN  concat_matches([k \in 1..Cardinality(ends) |-> line(k)])

\* Lines the server writes, each appended whole.
ChatLineUtf8 == <<"]", ":", " ", "<", "A", ">", " ", "C3", "A9", "\n">>
NotSecureLine == <<"]", ":", " ">> \o NOT_SECURE \o <<"<", "B", ">", " ", "h", "\n">>
InfoLine == <<"]", ":", " ", "x", "\n">>
LogLines == { ChatLineUtf8, NotSecureLine, InfoLine }

CountLines(bytes) == Cardinality({ i \in 1..Len(bytes) : bytes[i] = "\n" })

\* start arguments: before the beginning, inside a line, inside a character,
\* at a line's end, past the end
StartArgs == { 0 - 50, 0 - 10, 0 - 2, 0, 2, 5, 10, 50 }

ReaderIdle ==
    [pc |-> "idle", arg |-> 0, file_size |-> 0, at |-> 0, outcome |-> "none",
     content |-> <<>>, messages |-> <<>>, pointer |-> 0, calls |-> 0]

\* What a caller that feeds each pointer into the next call has received.
NoChain == [ok |-> TRUE, calls |-> 0, text |-> <<>>, messages |-> <<>>, before |-> 0]

\* The server appends a line to latest.log.
LogAppend ==
    /\ CountLines(log) < MaxLogLines
    /\ \E line \in LogLines : log' = log \o line
    /\ UNCHANGED <<reader, chain>>
    /\ UNCHANGED beside_log

\* get_logs_from_file(start) up to `file_size = await f.tell()`.  The caller
\* passes any start, or the pointer of its previous call (0 at first).
get_logs_measure ==
    /\ reader.pc = "idle"
    /\ reader.calls < MaxReads
    /\ \E start_arg \in StartArgs \cup {reader.pointer} :
         /\ reader' = [reader EXCEPT !.pc = "measured", !.arg = start_arg,
                                     !.file_size = Len(log), !.outcome = "none"]
         /\ chain' = [chain EXCEPT !.ok = chain.ok /\ start_arg = reader.pointer]
    /\ UNCHANGED log
    /\ UNCHANGED beside_log

\* ... the rest of it: seek(start), read(), tell(), and the chat extraction
\* of get_player_messages_from_log on what was read.
get_logs_read ==
    /\ reader.pc = "measured"
    /\ LET at == effective_start(reader.arg, reader.file_size)
           bytes_read == SubSeq(log, at + 1, Len(log))
           decoded == decode_utf8(bytes_read)
           pointer == log_pointer(at, bytes_read, reader.file_size)
       IN  IF decoded.tag = "raise"
           THEN /\ reader' = [reader EXCEPT !.pc = "idle", !.at = at,
                                 !.outcome = "raise", !.content = <<>>,
                                 !.messages = <<>>, !.calls = reader.calls + 1]
                /\ UNCHANGED chain
           ELSE /\ reader' = [reader EXCEPT !.pc = "idle", !.at = at,
                                 !.outcome = "ok", !.content = decoded.text,
                                 !.messages =
                                     parse_player_messages_from_log(decoded.text),
                                 !.pointer = pointer,
                                 !.calls = reader.calls + 1]
                /\ chain' = IF chain.ok
                            THEN [ok |-> TRUE, calls |-> chain.calls + 1,
                                  text |-> chain.text \o decoded.text,
                                  messages |-> chain.messages \o
                                     parse_player_messages_from_log(decoded.text),
                                  before |-> reader.pointer]
                            ELSE chain
    /\ UNCHANGED log
    /\ UNCHANGED beside_log

NotRotated == [count |-> 0, idle |-> FALSE, after |-> 0, pointer |-> 0]

\* The server restarts or the log is rotated: latest.log starts anew, empty.
\* Noted with it: whether a get_logs_from_file call was in progress, how many
\* calls had returned, and the pointer the caller holds.
LogRotate ==
    /\ log # <<>>
    /\ rotated.count < MaxRotations
    /\ log' = <<>>
    /\ rotated' = [count |-> rotated.count + 1, idle |-> reader.pc = "idle",
                   after |-> reader.calls, pointer |-> reader.pointer]
    /\ UNCHANGED <<reader, chain>>
    /\ UNCHANGED beside_log_rotation

NextLog ==
    \/ LogAppend
    \/ get_logs_measure
    \/ get_logs_read

----------------------------------------------------------------------------
(* The directory watcher (minecraft_docker_dir_watcher).                   *)

\* str.endswith(":25565") on a ports entry given as tokens
ends_with_game_port(tokens) ==
    /\ Len(tokens) >= 2
    /\ tokens[Len(tokens)] = "25565"
    /\ tokens[Len(tokens) - 1] = ":"

\* m.split(":")[0]
first_part(tokens) == SplitOn(tokens, ":")[1]

\* str.isdigit() of a run of tokens
isdigit(part) == Len(part) = 1 /\ part[1] \in NumStrings

NoInfo == [tag |-> "none", name |-> <<>>, port |-> 0]
InfoRaise == [tag |-> "raise", name |-> <<>>, port |-> 0]
Info(name, port) == [tag |-> "found", name |-> name, port |-> port]

\* The body of the loop over the services for one service: a name and port,
\* `continue` (NoInfo), or the exception of calling endswith on a ports entry
\* that is no string.
service_name_port(service_config) ==
    IF service_config.container_name = None THEN NoInfo
    ELSE IF ~startswith(service_config.container_name[1], MC_PREFIX) THEN NoInfo
    ELSE IF service_config.ports = None THEN NoInfo
    ELSE LET mappings == service_config.ports[1]
             hits == { i \in 1..Len(mappings) :
                         ends_with_game_port(mappings[i].s) }
         IN  IF \E i \in 1..Len(mappings) : mappings[i].tag # "str"
             THEN InfoRaise
             ELSE IF hits = {} THEN NoInfo
             ELSE LET port_str == first_part(mappings[Nth(hits, 1)].s)
                  IN  IF ~isdigit(port_str) THEN NoInfo
                      ELSE Info(slice_from(service_config.container_name[1], 3),
                                StrToInt(port_str[1]))

RECURSIVE first_name_port(_)
\* `for service_config in services.values()`: the first service that returns
first_name_port(services) ==
    IF services = <<>> THEN NoInfo
    ELSE LET here == service_name_port(Head(services))
         IN  IF here.tag = "none" THEN first_name_port(Tail(services)) ELSE here

\* files.get_name_port_from_compose_file on the parsed YAML
get_name_port_from_compose_file(compose_file) ==
    IF compose_file.services = None THEN NoInfo
    ELSE first_name_port(compose_file.services[1])

\* The names get_server_info looks for in a sub-directory.
WatchedFileNames == {"docker-compose.yaml", "docker-compose.yml"}

\* What one sub-directory contributes to the scan.
sub_dir_info(sub_dir) ==
    IF sub_dir.file \notin WatchedFileNames THEN NoInfo
    ELSE LET single_server_info == get_name_port_from_compose_file(sub_dir.doc)
         IN  IF single_server_info.tag = "raise" THEN NoInfo
             ELSE single_server_info

\* files.get_server_info: name -> port over the sub-directories of the root
get_server_info(root) ==
    LET found == { d \in DOMAIN root : sub_dir_info(root[d]).tag = "found" }
        names == { sub_dir_info(root[d]).name : d \in found }
    IN  [n \in names |->
            sub_dir_info(root[CHOOSE d \in found : sub_dir_info(root[d]).name = n]).port]

SubDirs == {"foo", "bar"}
\* a fixed order of the names for the lists the monitor builds
NameOrder == <<FOO, BAR>>

NoticeOf(type, name, port) == [type |-> type, name |-> name, port |-> port]

\* `updated` entries carrying the port that was stored before.
notification_entries_old_port(name, new_servers, stored_servers) ==
    IF name \in DOMAIN new_servers
    THEN IF name \notin DOMAIN stored_servers
         THEN <<NoticeOf("new", name, new_servers[name])>>
         ELSE IF stored_servers[name] # new_servers[name]
         THEN <<NoticeOf("updated", name, stored_servers[name])>>
         ELSE <<>>
    ELSE <<>>

\* The first loop of monitor for one name of the scan.
notification_entries(name, new_servers, stored_servers) ==
    IF name \in DOMAIN new_servers
    THEN IF name \notin DOMAIN stored_servers
         THEN <<NoticeOf("new", name, new_servers[name])>>
         ELSE IF stored_servers[name] # new_servers[name]
         THEN <<NoticeOf("updated", name, new_servers[name])>>
         ELSE <<>>
    ELSE <<>>

\* The second loop for one name of the table.
removed_entries(name, new_servers, stored_servers) ==
    IF name \in DOMAIN stored_servers /\ name \notin DOMAIN new_servers
    THEN <<NoticeOf("removed", name, stored_servers[name])>>
    ELSE <<>>

RECURSIVE build_over(_, _, _, _)
build_over(names, new_servers, stored_servers, removed) ==
    IF names = <<>> THEN <<>>
    ELSE (IF removed
          THEN removed_entries(Head(names), new_servers, stored_servers)
          ELSE notification_entries(Head(names), new_servers, stored_servers))
         \o build_over(Tail(names), new_servers, stored_servers, removed)

\* The notification of a cycle: new and updated entries, then removed ones.
build_notification(new_servers, stored_servers) ==
    build_over(NameOrder, new_servers, stored_servers, FALSE)
        \o build_over(NameOrder, new_servers, stored_servers, TRUE)

\* The bound on the websocket clients.
MaxClients == 2
WsClients == 1..MaxClients

NoServers == [n \in {} |-> 0]

NoSubDir == [file |-> "", doc |-> [services |-> None]]

\* A sub-directory holding one compose file of one service.
SubDir(file, container_name, ports) ==
    [file |-> file,
     doc |-> [services |-> Some(<<[container_name |-> Some(container_name),
                                   ports |-> Some(ports)]>>)]]

\* What the sub-directory of a server can hold: nothing; the file under the two
\* names the scan looks for and under the name MCInstance.create writes; the
\* game port in each shorthand form and in the long form; a container that is
\* no server.
SubDirStates(name) ==
    { NoSubDir,
      SubDir("docker-compose.yml", MC_PREFIX \o name,
             <<Shorthand(<<"9999", ":", "25565">>),
               Shorthand(<<"9998", ":", "25575">>)>>),
      SubDir("docker-compose.yaml", MC_PREFIX \o name,
             <<Shorthand(<<"25565", ":", "25565">>)>>),
      SubDir("docker-compose.yml", MC_PREFIX \o name,
             <<Shorthand(<<"127.0.0.1", ":", "9999", ":", "25565">>)>>),
      SubDir("docker-compose.yml", MC_PREFIX \o name,
             <<Shorthand(<<"9999", ":", "25565", "/", "tcp">>)>>),
      SubDir("compose.yaml", MC_PREFIX \o name,
             <<Shorthand(<<"9999", ":", "25565">>)>>),
      SubDir("docker-compose.yml", MC_PREFIX \o name,
             <<PortObject(Ports(None, Some(StrV("9999")), Some(IntV(25565)), None))>>),
      SubDir("docker-compose.yml", name,
             <<Shorthand(<<"9999", ":", "25565">>)>>) }

\* The first sub-directory takes every state, the second one is absent or
\* holds a compose file the scan reads, on one of two ports.
WatchStates(d) ==
    IF d = "foo" THEN SubDirStates(Chars(d))
    ELSE { f \in SubDirStates(Chars(d)) :
             f = NoSubDir \/ sub_dir_info(f).tag = "found" }

MonitorAt(at) ==
    [pc |-> at, new_servers |-> NoServers, stored_servers |-> NoServers,
     notification |-> <<>>, todo |-> {}, sent |-> [ws \in WsClients |-> <<>>]]

\* Someone writes, rewrites or deletes the compose file of a sub-directory.
DirChange ==
    \E d \in SubDirs : \E f \in WatchStates(d) :
        /\ f # watch[d]
        /\ watch' = [watch EXCEPT ![d] = f]
        /\ UNCHANGED <<table, monitor, clients>>
        /\ UNCHANGED beside_watcher

\* websocket_handler up to ws_clients.add(ws); a delivery is not in progress.
ClientConnects ==
    \E ws \in WsClients :
        /\ monitor.pc # "notify"
        /\ clients[ws] = "absent"
        /\ clients' = [clients EXCEPT ![ws] = "open"]
        /\ UNCHANGED <<watch, table, monitor>>
        /\ UNCHANGED beside_watcher

\* The connection closes: ws.closed is true, the handler has not run yet.
ClientCloses ==
    \E ws \in WsClients :
        /\ monitor.pc # "notify"
        /\ clients[ws] = "open"
        /\ clients' = [clients EXCEPT ![ws] = "closed"]
        /\ UNCHANGED <<watch, table, monitor>>
        /\ UNCHANGED beside_watcher

\* websocket_handler after its read loop: ws_clients.remove(ws)
ClientLeaves ==
    \E ws \in WsClients :
        /\ monitor.pc # "notify"
        /\ clients[ws] = "closed"
        /\ clients' = [clients EXCEPT ![ws] = "absent"]
        /\ UNCHANGED <<watch, table, monitor>>
        /\ UNCHANGED beside_watcher

\* new_servers = await get_server_info(watch_dir)
MonitorScan ==
    /\ monitor.pc = "scan"
    /\ monitor' = [MonitorAt("read") EXCEPT !.new_servers = get_server_info(watch)]
    /\ UNCHANGED <<watch, table, clients>>
    /\ UNCHANGED beside_watcher

\* A cycle that overrides the table and notifies whether the scan differs
\* from the table or not.
MonitorReadAlwaysWrites ==
    /\ monitor.pc = "read"
    /\ monitor' = [monitor EXCEPT !.stored_servers = table, !.pc = "delete"]
    /\ UNCHANGED <<watch, table, clients>>
    /\ UNCHANGED beside_watcher

\* stored_servers = await db.get_all_servers(); if new_servers != stored_servers
MonitorRead ==
    /\ monitor.pc = "read"
    /\ monitor' = [monitor EXCEPT
                     !.stored_servers = table,
                     !.pc = IF monitor.new_servers # table THEN "delete" ELSE "sleep"]
    /\ UNCHANGED <<watch, table, clients>>
    /\ UNCHANGED beside_watcher

\* override_all_servers: DELETE FROM servers, commit
MonitorDelete ==
    /\ monitor.pc = "delete"
    /\ table' = NoServers
    /\ monitor' = [monitor EXCEPT !.pc = "insert"]
    /\ UNCHANGED <<watch, clients>>
    /\ UNCHANGED beside_watcher

\* A cycle that starts notifying with the rows of the new scan not written.
MonitorInsertNotWritten ==
    /\ monitor.pc = "insert"
    /\ monitor' = [monitor EXCEPT
                     !.pc = "notify",
                     !.notification = build_notification(monitor.new_servers,
                                                         monitor.stored_servers),
                     !.todo = { ws \in WsClients : clients[ws] # "absent" }]
    /\ UNCHANGED <<watch, table, clients>>
    /\ UNCHANGED beside_watcher

\* update_servers: INSERT OR REPLACE, commit; then the notification is built
\* and notify_clients starts its loop over ws_clients.
MonitorInsert ==
    /\ monitor.pc = "insert"
    /\ table' = monitor.new_servers
    /\ monitor' = [monitor EXCEPT
                     !.pc = "notify",
                     !.notification = build_notification(monitor.new_servers,
                                                         monitor.stored_servers),
                     !.todo = { ws \in WsClients : clients[ws] # "absent" }]
    /\ UNCHANGED <<watch, clients>>
    /\ UNCHANGED beside_watcher

\* A loop that ends after the first websocket it looks at.
MonitorNotifyFirstOnly ==
    /\ monitor.pc = "notify"
    /\ \E ws \in monitor.todo :
        monitor' = [monitor EXCEPT
                      !.todo = {},
                      !.sent[ws] = IF clients[ws] = "closed" THEN @
                                   ELSE Append(@, monitor.notification)]
    /\ UNCHANGED <<watch, table, clients>>
    /\ UNCHANGED beside_watcher

\* One turn of the loop of notify_clients: a closed websocket is skipped, any
\* other is sent the list, and an exception of send_json is swallowed.
MonitorNotify ==
    /\ monitor.pc = "notify"
    /\ \E ws \in monitor.todo :
        monitor' = [monitor EXCEPT
                      !.todo = @ \ {ws},
                      !.sent[ws] = IF clients[ws] = "closed" THEN @
                                   ELSE Append(@, monitor.notification)]
    /\ UNCHANGED <<watch, table, clients>>
    /\ UNCHANGED beside_watcher

\* The loop is over: await asyncio.sleep(poll_interval)
MonitorNotified ==
    /\ monitor.pc = "notify"
    /\ monitor.todo = {}
    /\ monitor' = [monitor EXCEPT !.pc = "sleep"]
    /\ UNCHANGED <<watch, table, clients>>
    /\ UNCHANGED beside_watcher

\* The sleep ends and the next cycle begins.
MonitorSleep ==
    /\ monitor.pc = "sleep"
    /\ monitor' = MonitorAt("scan")
    /\ UNCHANGED <<watch, table, clients>>
    /\ UNCHANGED beside_watcher

NotServed ==
    [tag |-> "none", servers |-> NoServers, replacing |-> FALSE,
     previous |-> FALSE, new |-> FALSE]

\* GET /all_servers: web.json_response(await db.get_all_servers()), the
\* SELECT running on the connection the monitor writes through.  Noted with
\* the answer: whether the monitor was inside override_all_servers, and
\* whether the answer is the map it was replacing, or the map it was writing.
GetAllServers ==
    /\ served' = [tag |-> "ok", servers |-> table,
                  replacing |-> monitor.pc \in {"delete", "insert"},
                  previous |-> table = monitor.stored_servers,
                  new |-> table = monitor.new_servers]
    /\ served' # served
    /\ UNCHANGED <<watch, table, monitor, clients>>
    /\ UNCHANGED beside_watcher_http

\* The watcher with no subscriber connected, and clients of GET /all_servers.
NextServe ==
    \/ DirChange
    \/ MonitorScan
    \/ MonitorRead
    \/ MonitorDelete
    \/ MonitorInsert
    \/ MonitorNotified
    \/ MonitorSleep
    \/ GetAllServers

\* `for ws in ws_clients`: the size of the set when the iterator was made,
\* the websockets it has yielded, those that have been in the set and open
\* ever since, and those whose send_json raised.
NotIterating == [on |-> FALSE, used |-> 0, visited |-> {}, steady |-> {}, failed |-> {}]

Members == { ws \in WsClients : clients[ws] # "absent" }

\* A subscriber's connection changes to `to`, at any time; a delivery in
\* progress no longer counts it among the subscribers that stay as they are.
Subscriber(ws, from, to) ==
    /\ clients[ws] = from
    /\ clients' = [clients EXCEPT ![ws] = to]
    /\ iterating' = [iterating EXCEPT !.steady = @ \ {ws}]
    /\ UNCHANGED <<watch, table, monitor>>
    /\ UNCHANGED beside_watcher_delivery

\* websocket_handler up to ws_clients.add(ws)
ws_add == \E ws \in WsClients : Subscriber(ws, "absent", "open")

\* The connection closes: ws.closed is true, the handler has not run yet.
ws_close == \E ws \in WsClients : Subscriber(ws, "open", "closed")

\* websocket_handler after its read loop: ws_clients.remove(ws)
ws_remove == \E ws \in WsClients : Subscriber(ws, "closed", "absent")

\* notify_clients from one await to the next.  The iterator is made when the
\* loop is entered.  Each next() raises RuntimeError when the size of the
\* set is not what it was then; the error leaves notify_clients, monitor()
\* and run().  Closed websockets are passed without an await; an open one is
\* awaited in send_json, whose exception is swallowed.  An iterator over a
\* set that has changed and has its old size again yields some of the
\* members it has not yielded, or none.
NotifyNext ==
    /\ monitor.pc = "notify"
    /\ LET it == IF iterating.on THEN iterating
                 ELSE [on |-> TRUE, used |-> Cardinality(Members), visited |-> {},
                       steady |-> { ws \in Members : clients[ws] = "open" },
                       failed |-> {}]
           left == Members \ it.visited
           closed == { ws \in left : clients[ws] = "closed" }
       IN  IF Cardinality(Members) # it.used
           THEN /\ monitor' = [monitor EXCEPT !.pc = "raised"]
                /\ iterating' = NotIterating
           ELSE \E skipped \in SUBSET closed :
                  \/ \E ws \in left \ closed : \E sent_ok \in BOOLEAN :
                       /\ monitor' = [monitor EXCEPT !.sent[ws] =
                                         IF sent_ok THEN Append(@, monitor.notification)
                                         ELSE @]
                       /\ iterating' = [it EXCEPT
                                          !.visited = @ \cup skipped \cup {ws},
                                          !.failed = IF sent_ok THEN @ ELSE @ \cup {ws}]
                  \/ /\ \/ left = skipped
                        \/ it.visited \ Members # {}
                     /\ monitor' = [monitor EXCEPT !.pc = "sleep"]
                     /\ iterating' = NotIterating
    /\ UNCHANGED <<watch, table, clients>>
    /\ UNCHANGED beside_watcher_delivery

\* The watcher over a root that stays as it is, with subscribers that come
\* and go at any time.
NextDelivery ==
    \/ ws_add
    \/ ws_close
    \/ ws_remove
    \/ MonitorScan
    \/ MonitorRead
    \/ MonitorDelete
    \/ MonitorInsert
    \/ NotifyNext
    \/ MonitorSleep

NextWatcher ==
    \/ DirChange
    \/ ClientConnects
    \/ ClientCloses
    \/ ClientLeaves
    \/ MonitorScan
    \/ MonitorRead
    \/ MonitorDelete
    \/ MonitorInsert
    \/ MonitorNotify
    \/ MonitorNotified
    \/ MonitorSleep

----------------------------------------------------------------------------
(* The parsers, each applied to inputs drawn from a bounded set.           *)

\* The bound on the colon-separated parts of a port text.
MaxParts == 4

NotParsed == [tag |-> "none", port |-> Ports(None, None, None, None)]

\* A bare number and a float (in tenths) in a ports list.
PortNumber(n) ==
    [tag |-> "num", s |-> <<>>, n |-> n, p |-> Ports(None, None, None, None)]
PortFloat(tenths) ==
    [tag |-> "flt", s |-> <<>>, n |-> tenths, p |-> Ports(None, None, None, None)]

\* What stands between two colons: nothing, a number, a range, an address, or
\* other text.
PartTexts ==
    { <<>>, <<"25565">>, <<"9999">>, <<"8000-9000">>, <<"127.0.0.1">>,
      <<"invalid-port-format">> }

\* What follows the parts: nothing, a protocol, a slash alone, two slashes.
Suffixes == { <<>>, <<"/", "udp">>, <<"/">>, <<"/", "udp", "/", "tcp">> }

RECURSIVE JoinParts(_)
\* ":".join(parts)
JoinParts(parts) ==
    IF Len(parts) = 1 THEN parts[1]
    ELSE parts[1] \o <<":">> \o JoinParts(Tail(parts))

PortTexts ==
    { JoinParts(parts) \o suffix :
        parts \in UNION { [1..n -> PartTexts] : n \in 1..MaxParts },
        suffix \in Suffixes }

PortInputs ==
    { Shorthand(text) : text \in PortTexts }
        \cup { PortNumber(p[1]) : p \in NumTable }
        \cup { PortFloat(p[1] * 10 + 5) : p \in NumTable }
        \cup { PortObject(Ports(None, None, Some(IntV(25565)), None)),
               PortObject(Ports(Some("127.0.0.1"), Some(StrV("9999")),
                                Some(StrV("25565")), Some("udp"))) }

\* A boolean as a value of a serialized mapping.
BoolV(b) == [t |-> "bool", n |-> IF b THEN 1 ELSE 0, s |-> ""]

\* The pair of a mapping for a field that is set: a text, a value as it is,
\* a boolean.
TextPair(key, option) ==
    IF option = None THEN {} ELSE {<<key, StrV(option[1])>>}
ValuePair(key, option) ==
    IF option = None THEN {} ELSE {<<key, option[1]>>}
BoolPair(key, option) ==
    IF option = None THEN {} ELSE {<<key, BoolV(option[1])>>}

\* A pair whose decimal text is written as the number it spells.
NumberPair(key, option) ==
    IF option = None THEN {}
    ELSE IF option[1].t = "str" /\ option[1].s \in NumStrings
    THEN {<<key, IntV(StrToInt(option[1].s))>>}
    ELSE {<<key, option[1]>>}

\* Serialization that turns the texts of ports into numbers.
Ports_to_dict_numbers(port) ==
    TextPair("host_ip", port.host_ip)
        \cup NumberPair("published", port.published)
        \cup NumberPair("target", port.target)
        \cup TextPair("protocol", port.protocol)

\* to_dict of one Ports object: the structured form, field by field.
Ports_to_dict(port) ==
    TextPair("host_ip", port.host_ip)
        \cup ValuePair("published", port.published)
        \cup ValuePair("target", port.target)
        \cup TextPair("protocol", port.protocol)

\* dict.get on a set of pairs
FieldOf(pairs, key) ==
    IF \E pair \in pairs : pair[1] = key
    THEN Some((CHOOSE pair \in pairs : pair[1] = key)[2])
    ELSE None

\* The Ports model validating a mapping: no other keys; host_ip and protocol
\* are text; target and published keep a text as text and a number as number.
Ports_validate(pairs) ==
    LET host_ip == FieldOf(pairs, "host_ip")
        protocol == FieldOf(pairs, "protocol")
        target == FieldOf(pairs, "target")
        published == FieldOf(pairs, "published")
    IN  IF \/ \E pair \in pairs :
                 pair[1] \notin {"name", "mode", "host_ip", "target", "published",
                                 "protocol", "app_protocol"}
           \/ host_ip # None /\ host_ip[1].t # "str"
           \/ protocol # None /\ protocol[1].t # "str"
           \/ target # None /\ target[1].t \notin {"int", "str"}
           \/ published # None /\ published[1].t \notin {"int", "str"}
        THEN PortError
        ELSE PortOk(Ports(IF host_ip = None THEN None ELSE Some(host_ip[1].s),
                          published, target,
                          IF protocol = None THEN None ELSE Some(protocol[1].s)))

Volumes(type, source, target, read_only) ==
    [type |-> type, source |-> source, target |-> target, read_only |-> read_only]

VolumeOk(v) == [tag |-> "ok", volume |-> v]
VolumeError == [tag |-> "raise", volume |-> Volumes("", None, None, None)]

\* "<source>:<target>[:<options>]": a source that looks like a path is a bind
\* mount, any other a named volume; of the comma-separated options only ro is
\* read; a text without a colon raises the invalid-volume-format error.
convert_str_volume_to_obj(entry) ==
    LET parts == SplitOn(entry.s, ":")
    IN  IF \/ Len(parts) \notin {2, 3}
           \/ Len(parts[1]) # 1
           \/ Len(parts[2]) # 1
        THEN VolumeError
        ELSE LET options == IF Len(parts) = 3 THEN SplitOn(parts[3], ",")
                            ELSE <<>>
                 ro == \E i \in 1..Len(options) : options[i] = <<"ro">>
             IN  VolumeOk(Volumes(
                     IF parts[1][1] \in {"/data", "/home", "./data"}
                     THEN "bind" ELSE "volume",
                     Some(parts[1][1]), Some(parts[2][1]),
                     IF ro THEN Some(TRUE) ELSE None))

\* to_dict of one Volumes object
Volumes_to_dict(volume) ==
    {<<"type", StrV(volume.type)>>}
        \cup TextPair("source", volume.source)
        \cup TextPair("target", volume.target)
        \cup BoolPair("read_only", volume.read_only)

\* The Volumes model validating a mapping: type is required text, source and
\* target are text, read_only a boolean.
Volumes_validate(pairs) ==
    LET type == FieldOf(pairs, "type")
        source == FieldOf(pairs, "source")
        target == FieldOf(pairs, "target")
        read_only == FieldOf(pairs, "read_only")
    IN  IF \/ type = None
           \/ type # None /\ type[1].t # "str"
           \/ source # None /\ source[1].t # "str"
           \/ target # None /\ target[1].t # "str"
           \/ read_only # None /\ read_only[1].t \notin {"bool", "str"}
        THEN VolumeError
        ELSE VolumeOk(Volumes(type[1].s,
                              IF source = None THEN None ELSE Some(source[1].s),
                              IF target = None THEN None ELSE Some(target[1].s),
                              IF read_only = None THEN None
                              ELSE Some(read_only[1].n = 1)))

VolumeText(tokens) == [tag |-> "vol", s |-> tokens]

\* Sources and targets, option lists, and nothing at all between two colons.
VolumeParts ==
    { <<>>, <<"/data">>, <<"dbdata">>, <<"ro">>, <<"rw", ",", "ro">>, <<"rw">> }

VolumeInputs ==
    { VolumeText(JoinParts(parts)) :
        parts \in UNION { [1..n -> VolumeParts] : n \in 1..3 } }

\* Lists of KEY=VALUE entries, one with a key given twice.
EnvironmentInputs ==
    { EnvList(<< <<"EULA", "=", "true">> >>),
      EnvList(<< <<"EULA", "=", "true">>, <<"VERSION", "=", "1.20.4">> >>),
      EnvList(<< <<"VERSION", "=", "1.19.4">>, <<"VERSION", "=", "1.20.4">> >>) }

EnvironmentOk(map) == [tag |-> "ok", environment |-> map]

\* convert_str_port_to_obj(given)
ParsePort ==
    /\ given.tag \in {"str", "num", "flt", "obj"}
    /\ result = NotParsed
    /\ result' = convert_str_port_to_obj(given)
    /\ UNCHANGED <<given, again>>
    /\ UNCHANGED beside_parser

\* The parsed port is serialized and the mapping is parsed again.
ReparsePort ==
    /\ given.tag \in {"str", "num", "flt", "obj"}
    /\ result.tag = "ok"
    /\ again = NotParsed
    /\ again' = Ports_validate(Ports_to_dict(result.port))
    /\ UNCHANGED <<given, result>>
    /\ UNCHANGED beside_parser

\* convert_str_volume_to_obj(given)
ParseVolume ==
    /\ given.tag = "vol"
    /\ result = NotParsed
    /\ result' = convert_str_volume_to_obj(given)
    /\ UNCHANGED <<given, again>>
    /\ UNCHANGED beside_parser

\* The parsed volume is serialized and the mapping is parsed again.
ReparseVolume ==
    /\ given.tag = "vol"
    /\ result.tag = "ok"
    /\ again = NotParsed
    /\ again' = Volumes_validate(Volumes_to_dict(result.volume))
    /\ UNCHANGED <<given, result>>
    /\ UNCHANGED beside_parser

\* The environment list is expanded into a mapping.
ParseEnvironment ==
    /\ given.tag = "list"
    /\ result = NotParsed
    /\ result' = EnvironmentOk(expand_environment(given)[1])
    /\ UNCHANGED <<given, again>>
    /\ UNCHANGED beside_parser

\* The mapping is written out as a mapping and expanded again.
ReparseEnvironment ==
    /\ given.tag = "list"
    /\ result.tag = "ok"
    /\ again = NotParsed
    /\ again' = EnvironmentOk(expand_environment(EnvDict(result.environment))[1])
    /\ UNCHANGED <<given, result>>
    /\ UNCHANGED beside_parser

NextPorts ==
    \/ ParsePort
    \/ ReparsePort
    \/ ParseVolume
    \/ ReparseVolume
    \/ ParseEnvironment
    \/ ReparseEnvironment

----------------------------------------------------------------------------
(* The parsers of /proc/<pid>/net/dev, memory.stat and io.stat.            *)

\* The bound on the data lines of a file.
MaxLines == 2

\* The decimal texts of the counters and what int() makes of them.
CounterTable == { <<"0", 0>>, <<"7", 7>>, <<"1500", 1500>> }
CounterTexts == { c[1] : c \in CounterTable }

\* int(word): the number, or ValueError
int_text(word) ==
    IF word \in CounterTexts
    THEN [tag |-> "ok", value |-> (CHOOSE c \in CounterTable : c[1] = word)[2]]
    ELSE [tag |-> "raise", value |-> 0]

\* content.strip().split('\n') on a content given as its lines, a line being
\* its words: the blank lines in front and behind are gone, and a content of
\* blank lines only is one empty line.
strip_split(content) ==
    LET filled == { i \in 1..Len(content) : content[i] # <<>> }
    IN  IF filled = {} THEN << <<>> >>
        ELSE SubSeq(content,
                    CHOOSE i \in filled : \A j \in filled : i <= j,
                    CHOOSE i \in filled : \A j \in filled : j <= i)

NET_DEV_FIELDS == 16

\* line.split(':', 1): the words in front of the first colon and behind it
before_colon(line) ==
    SubSeq(line, 1, (CHOOSE i \in 1..Len(line) :
                        line[i] = ":" /\ \A j \in 1..(i - 1) : line[j] # ":") - 1)
after_colon(line) ==
    SubSeq(line, (CHOOSE i \in 1..Len(line) :
                        line[i] = ":" /\ \A j \in 1..(i - 1) : line[j] # ":") + 1,
           Len(line))

\* The body of the loop for one line: the interface it appends, or nothing.
net_dev_line(line) ==
    IF line = <<>> THEN <<>>
    ELSE IF \A i \in 1..Len(line) : line[i] # ":" THEN <<>>
    ELSE LET stats == after_colon(line)
         IN  IF Len(stats) < NET_DEV_FIELDS THEN <<>>
             ELSE IF \E i \in 1..NET_DEV_FIELDS : int_text(stats[i]).tag = "raise"
             THEN <<>>
             ELSE <<[name |-> before_colon(line),
                     counters |-> [i \in 1..NET_DEV_FIELDS |->
                                      int_text(stats[i]).value]]>>

RECURSIVE net_dev_lines_until_malformed(_)
\* A loop that ends at the first line it cannot use.
net_dev_lines_until_malformed(lines) ==
    IF lines = <<>> THEN <<>>
    ELSE IF net_dev_line(Head(lines)) = <<>> THEN <<>>
    ELSE net_dev_line(Head(lines)) \o net_dev_lines_until_malformed(Tail(lines))

RECURSIVE net_dev_lines(_)
\* for line in lines[2:]
net_dev_lines(lines) ==
    IF lines = <<>> THEN <<>>
    ELSE net_dev_line(Head(lines)) \o net_dev_lines(Tail(lines))

\* NetworkStats.from_net_dev_content
from_net_dev_content(content) ==
    LET lines == strip_split(content)
    IN  IF Len(lines) < 3 THEN [tag |-> "ok", interfaces |-> <<>>]
        ELSE [tag |-> "ok",
              interfaces |-> net_dev_lines(SubSeq(lines, 3, Len(lines)))]

Fields(n, word) == [i \in 1..n |-> word]

\* The two header lines of the kernel, and an interface line where a header
\* should be.
NetDevHeaders ==
    { << <<"Inter-|", "Receive", "|", "Transmit">>,
         <<"face", "|bytes", "packets", "|bytes", "packets">> >>,
      << <<"Inter-|", "Receive", "|", "Transmit">>,
         <<"lo", ":">> \o Fields(NET_DEV_FIELDS, "7") >> }

\* Data lines: two interfaces, one with a field more, one with a field less,
\* one without its colon, one with text as its first counter, one with a
\* fraction as its last, and a blank line.
NetDevLines ==
    { <<"eth0", ":">> \o Fields(NET_DEV_FIELDS, "1500"),
      <<"lo", ":", "7">> \o Fields(NET_DEV_FIELDS - 1, "0"),
      <<"eth1", ":">> \o Fields(NET_DEV_FIELDS + 1, "7"),
      <<"eth2", ":">> \o Fields(NET_DEV_FIELDS - 1, "7"),
      <<"eth3">> \o Fields(NET_DEV_FIELDS, "7"),
      <<"eth4", ":", "abc">> \o Fields(NET_DEV_FIELDS - 1, "7"),
      <<"eth5", ":">> \o Fields(NET_DEV_FIELDS - 1, "7") \o <<"1.5">>,
      <<>> }

NetDev(lines) == [kind |-> "net_dev", lines |-> lines]

\* A file of the two headers and some data lines, or one cut short.
NetDevInputs ==
    { NetDev(headers \o data) :
        headers \in NetDevHeaders,
        data \in UNION { [1..n -> NetDevLines] : n \in 0..MaxLines } }
        \cup { NetDev(<<>>), NetDev(<< <<"Inter-|", "Receive", "|", "Transmit">> >>) }

\* int(value) of every line of two words, the first failure ending the call
\* with ValueError; a later line of a key replaces an earlier one.
memory_stat_lines(lines) ==
    LET pairs == { i \in 1..Len(lines) : Len(lines[i]) = 2 }
        keys == { lines[i][1] : i \in pairs }
        lastOf(key) == CHOOSE i \in pairs :
                           /\ lines[i][1] = key
                           /\ \A j \in pairs : lines[j][1] = key => j <= i
    IN  IF \E i \in pairs : int_text(lines[i][2]).tag = "raise"
        THEN [tag |-> "raise", stats |-> <<>>]
        ELSE [tag |-> "ok",
              stats |-> [key \in keys |-> int_text(lines[lastOf(key)][2]).value]]

\* MemoryStats(**stats): the fields of the model, 0 where the file has no
\* line for one; a key that is no field is ignored.
MemoryStats(stats) ==
    [field \in {"anon", "file"} |->
        IF field \in DOMAIN stats THEN stats[field] ELSE 0]

\* MemoryStats.from_memory_stat_content
from_memory_stat_content(content) ==
    LET parsed == memory_stat_lines(strip_split(content))
    IN  IF parsed.tag = "raise" THEN [tag |-> "raise", memory |-> MemoryStats(<<>>)]
        ELSE [tag |-> "ok", memory |-> MemoryStats(parsed.stats)]

\* map(int, device_id.split(':')) unpacked into major, minor
device_major_minor(device_id) ==
    LET parts == SplitOn(device_id, ":")
    IN  IF \/ Len(parts) # 2
           \/ \E i \in 1..Len(parts) :
                 Len(parts[i]) # 1 \/ int_text(parts[i][1]).tag = "raise"
        THEN [tag |-> "raise", major |-> 0, minor |-> 0]
        ELSE [tag |-> "ok", major |-> int_text(parts[1][1]).value,
              minor |-> int_text(parts[2][1]).value]

\* The words of a line behind the device that hold a "=".
key_values(line) ==
    { i \in 2..Len(line) : \E k \in 1..Len(line[i]) : line[i][k] = "=" }

\* One line of io.stat, line.split() being the runs between the blanks: the
\* device it appends, or ValueError.
io_stat_line(text) ==
    LET line == SplitOn(text, " ")
        device == device_major_minor(line[1])
        pairs == key_values(line)
        key(i) == SplitOn(line[i], "=")[1]
        value(i) == SplitOn(line[i], "=")[2]
        lastOf(name) == CHOOSE i \in pairs :
                            /\ key(i) = <<name>>
                            /\ \A j \in pairs : key(j) = <<name>> => j <= i
        field(name) == IF \E i \in pairs : key(i) = <<name>>
                       THEN int_text(value(lastOf(name))[1]).value ELSE 0
    IN  IF \/ device.tag = "raise"
           \/ \E i \in pairs :
                 Len(value(i)) # 1 \/ int_text(value(i)[1]).tag = "raise"
        THEN [tag |-> "raise", device |-> <<>>]
        ELSE [tag |-> "ok",
              device |-> <<[major |-> device.major, minor |-> device.minor,
                            rbytes |-> field("rbytes"),
                            wbytes |-> field("wbytes")]>>]

RECURSIVE io_stat_lines(_)
\* The loop over the lines: the devices of the lines that are not empty, or
\* the first ValueError.
io_stat_lines(lines) ==
    IF lines = <<>> THEN [tag |-> "ok", devices |-> <<>>]
    ELSE IF Head(lines) = <<>> THEN io_stat_lines(Tail(lines))
    ELSE LET here == io_stat_line(Head(lines))
             rest == io_stat_lines(Tail(lines))
         IN  IF here.tag = "raise" \/ rest.tag = "raise"
             THEN [tag |-> "raise", devices |-> <<>>]
             ELSE [tag |-> "ok", devices |-> here.device \o rest.devices]

\* BlockIOStats.from_io_stat_content
from_io_stat_content(content) == io_stat_lines(strip_split(content))

\* Lines of memory.stat: two fields, a field given again, a value that is no
\* number, a key alone, a key that is no field, a blank line.
MemoryStatLines ==
    { <<"anon", "1500">>, <<"file", "7">>, <<"file", "0">>, <<"file", "abc">>,
      <<"anon">>, <<"workingset_refault", "7">>, <<>> }

MemoryStat(lines) == [kind |-> "memory_stat", lines |-> lines]

MemoryStatInputs ==
    { MemoryStat(lines) :
        lines \in UNION { [1..n -> MemoryStatLines] : n \in 0..(MaxLines + 1) } }

\* Lines of io.stat, a blank between two words being a piece of its own: two
\* devices, a device that is a name, a device of three numbers, a value that
\* is no number, a word without "=", a blank line.
IoStatLines ==
    { <<"7", ":", "0", " ", "rbytes", "=", "1500", " ", "wbytes", "=", "7">>,
      <<"1500", ":", "7", " ", "wbytes", "=", "1500">>,
      <<"sda", " ", "rbytes", "=", "7">>,
      <<"7", ":", "0", ":", "7", " ", "rbytes", "=", "7">>,
      <<"7", ":", "7", " ", "rbytes", "=", "abc">>,
      <<"0", ":", "7", " ", "rbytes", " ", "wbytes", "=", "7">>,
      <<>> }

IoStat(lines) == [kind |-> "io_stat", lines |-> lines]

IoStatInputs ==
    { IoStat(lines) :
        lines \in UNION { [1..n -> IoStatLines] : n \in 0..(MaxLines + 1) } }

\* A cgroup file as open() finds it: not there, not readable, or its lines.
NoFile == [state |-> "missing", lines |-> <<>>]
Unreadable == [state |-> "denied", lines |-> <<>>]
FileOf(lines) == [state |-> "content", lines |-> lines]

\* read_memory_stats: FileNotFoundError for a file that is not there,
\* RuntimeError for any other failure, the parse's ValueError included.
read_memory_stats(file) ==
    IF file.state = "missing"
    THEN [tag |-> "FileNotFoundError", memory |-> MemoryStats(<<>>)]
    ELSE IF file.state = "denied"
    THEN [tag |-> "RuntimeError", memory |-> MemoryStats(<<>>)]
    ELSE LET parsed == from_memory_stat_content(file.lines)
         IN  IF parsed.tag = "raise"
             THEN [tag |-> "RuntimeError", memory |-> MemoryStats(<<>>)]
             ELSE parsed

\* read_block_io_stats, likewise
read_block_io_stats(file) ==
    IF file.state = "missing"
    THEN [tag |-> "FileNotFoundError", devices |-> <<>>]
    ELSE IF file.state = "denied"
    THEN [tag |-> "RuntimeError", devices |-> <<>>]
    ELSE LET parsed == from_io_stat_content(file.lines)
         IN  IF parsed.tag = "raise"
             THEN [tag |-> "RuntimeError", devices |-> <<>>]
             ELSE parsed

\* An aggregate that gives up both halves when one of the reads fails.
read_cgroup_stats_both_or_none(memory_file, io_file) ==
    LET memory == read_memory_stats(memory_file)
        block_io == read_block_io_stats(io_file)
    IN  IF memory.tag = "ok" /\ block_io.tag = "ok"
        THEN [tag |-> "ok", memory |-> Some(memory.memory),
              block_io |-> Some(block_io.devices)]
        ELSE [tag |-> "ok", memory |-> None, block_io |-> None]

\* read_cgroup_stats: each read in a try of its own, `except Exception: pass`
read_cgroup_stats(memory_file, io_file) ==
    LET memory == read_memory_stats(memory_file)
        block_io == read_block_io_stats(io_file)
    IN  [tag |-> "ok",
         memory |-> IF memory.tag = "ok" THEN Some(memory.memory) ELSE None,
         block_io |-> IF block_io.tag = "ok" THEN Some(block_io.devices)
                      ELSE None]

CgroupFiles(lines) ==
    { NoFile, Unreadable } \cup { FileOf(<<line>>) : line \in lines }

Cgroup(memory_file, io_file) ==
    [kind |-> "cgroup", memory_file |-> memory_file, io_file |-> io_file]

\* The two files of a container, each missing, unreadable, or of one line.
CgroupInputs ==
    { Cgroup(memory_file, io_file) :
        memory_file \in CgroupFiles(MemoryStatLines),
        io_file \in CgroupFiles(IoStatLines) }

\* read_cgroup_stats(container_id)
ReadCgroupStats ==
    /\ given.kind = "cgroup"
    /\ result.tag = "none"
    /\ result' = read_cgroup_stats(given.memory_file, given.io_file)
    /\ UNCHANGED <<given, again>>
    /\ UNCHANGED beside_parser

\* from_memory_stat_content(given)
ParseMemoryStat ==
    /\ given.kind = "memory_stat"
    /\ result.tag = "none"
    /\ result' = from_memory_stat_content(given.lines)
    /\ UNCHANGED <<given, again>>
    /\ UNCHANGED beside_parser

\* from_io_stat_content(given)
ParseIoStat ==
    /\ given.kind = "io_stat"
    /\ result.tag = "none"
    /\ result' = from_io_stat_content(given.lines)
    /\ UNCHANGED <<given, again>>
    /\ UNCHANGED beside_parser

\* from_net_dev_content(pid, given)
ParseNetDev ==
    /\ given.kind = "net_dev"
    /\ result.tag = "none"
    /\ result' = from_net_dev_content(given.lines)
    /\ UNCHANGED <<given, again>>
    /\ UNCHANGED beside_parser

NextStats ==
    \/ ParseNetDev
    \/ ParseMemoryStat
    \/ ParseIoStat
    \/ ReadCgroupStats

\* The log machine on a file that is also replaced.
NextLogRotate ==
    \/ LogAppend
    \/ get_logs_measure
    \/ get_logs_read
    \/ LogRotate

----------------------------------------------------------------------------
(* The registry: DockerMCManager over the entries of the servers root.      *)

\* The names the entries of the servers root can have.
DirNames == <<FOO, BAR, Chars("wrong-name")>>

NotThere == [there |-> FALSE, files |-> NoFiles]
DirWith(fs) == [there |-> TRUE, files |-> fs]

\* An entry: not there, a directory with no compose file, or a directory
\* whose compose.yaml holds one of the documents.
DirStates ==
    { NotThere, DirWith(NoFiles) } \cup
    { DirWith([NoFiles EXCEPT ![COMPOSE_YAML] = Some(doc)]) :
        doc \in YamlInputs \cup {LegacyYaml} }

NoRoot == [i \in 1..Len(DirNames) |-> NotThere]
NotListed == [tag |-> "none", error |-> "", names |-> {}]

\* MCInstance(servers_path, name).get_compose_obj() on the files fs:
\* FileNotFoundError without a compose file or with a server name that is not
\* the directory's, the loader's or the validation's error otherwise.
get_compose_obj(name, fs) ==
    IF get_compose_file_path(fs) = 0 THEN [tag |-> "raise", error |-> "FileNotFoundError"]
    ELSE LET compose_yaml == fs[get_compose_file_path(fs)][1]
         IN  IF compose_yaml.tag = "malformed"
             THEN [tag |-> "raise", error |-> "YAMLError"]
             ELSE LET compose_obj == from_dict(compose_yaml.doc)
                  IN  IF compose_obj.tag = "raise"
                      THEN [tag |-> "raise", error |-> "ValueError"]
                      ELSE LET mc_compose == MCComposeFile(compose_obj)
                           IN  IF mc_compose.tag = "error"
                               THEN [tag |-> "raise", error |-> "ValueError"]
                               ELSE IF get_server_name(mc_compose.service).name # name
                               THEN [tag |-> "raise", error |-> "FileNotFoundError"]
                               ELSE [tag |-> "ok", error |-> ""]

\* aioos.listdir(servers_path)
listdir(root) == { i \in 1..Len(DirNames) : root[i].there }

\* parse_server_name_from_compose_obj(compose_obj, verify=False) on what
\* get_compose_obj returns: services["mc"] of an MCComposeFile is a mapping
\* (MCService is a TypedDict), and .container_name is asked of it as an
\* attribute.
parse_server_name_from_compose_obj(mc_compose) ==
    [tag |-> "raise", error |-> "AttributeError"]

\* DockerMCManager.get_all_server_names: the outcomes it can have.  gather
\* runs get_compose_obj for every entry and raises the first error any of
\* them raises; the names are parsed from what is gathered, in order.
get_all_server_names(root) ==
    LET gathered == [i \in listdir(root) |-> get_compose_obj(DirNames[i], root[i].files)]
        failed == { i \in listdir(root) : gathered[i].tag = "raise" }
    IN  IF failed # {}
        THEN { [tag |-> "raise", error |-> gathered[i].error, names |-> {}] :
                   i \in failed }
        ELSE IF listdir(root) # {}
        THEN { [tag |-> "raise",
                error |-> parse_server_name_from_compose_obj(gathered).error,
                names |-> {}] }
        ELSE { [tag |-> "ok", error |-> "", names |-> {}] }

\* await manager.get_all_server_names()
GetAllServerNames ==
    /\ listing.tag = "none"
    /\ listing' \in get_all_server_names(servers_root)
    /\ UNCHANGED servers_root
    /\ UNCHANGED beside_registry

\* Another process adds, changes or removes an entry of the servers root.
RootChanges ==
    /\ listing.tag = "none"
    /\ \E i \in 1..Len(DirNames), entry \in DirStates :
         /\ servers_root[i] # entry
         /\ servers_root' = [servers_root EXCEPT ![i] = entry]
    /\ UNCHANGED listing
    /\ UNCHANGED beside_registry

NextRegistry ==
    \/ GetAllServerNames
    \/ RootChanges

----------------------------------------------------------------------------
(* Two agents on one server: one calls remove() and get_status(), whose    *)
(* awaits are steps of their own; the other agent's calls and the          *)
(* container's own changes come in between.                                *)

Server(dir, fs, c, h) == [dir |-> dir, files |-> fs, container |-> c, health |-> h]
NoServer == Server(FALSE, NoFiles, "none", "none")

Statuses == {"REMOVED", "EXISTS", "CREATED", "RUNNING", "STARTING", "HEALTHY"}
NotAsked == [pc |-> "done", ret |-> "", had |-> {}]

\* What the five probes answer about the server s.
AnswersOf(s) ==
    [n \in {ProbeNames[i] : i \in 1..Len(ProbeNames)} |->
        CASE n = "exists" -> exists(s.files)
          [] n = "created" -> created(s.container)
          [] n = "running" -> running(s.container)
          [] n = "starting" -> starting(s.container, s.health)
          [] n = "healthy" -> healthy(s.container, s.health)]

\* The status of the server s at one instant.
StatusOf(s) == run_get_status("exists", AnswersOf(s))

\* The server becomes s; a get_status call in progress has one more status
\* that the server had during it.
Becomes(s) ==
    /\ server' = s
    /\ asker' = IF asker.pc = "done" THEN asker
                ELSE [asker EXCEPT !.had = @ \cup {StatusOf(s)}]

\* remove(), first await: `if await self._compose_manager.created(): raise`
remove_probe ==
    /\ remover # "probed"
    /\ remover' = IF created(server.container) THEN "RuntimeError" ELSE "probed"
    /\ UNCHANGED <<server, asker>>
    /\ UNCHANGED beside_agents

\* A remove() that asks created() once more where it deletes, the two in
\* one step.
remove_rmtree_guarded ==
    /\ remover = "probed"
    /\ IF created(server.container)
       THEN /\ remover' = "RuntimeError"
            /\ UNCHANGED <<server, asker>>
       ELSE IF ~server.dir
       THEN /\ remover' = "FileNotFoundError"
            /\ UNCHANGED <<server, asker>>
       ELSE /\ remover' = "ok"
            /\ Becomes(Server(FALSE, NoFiles, server.container, server.health))
    /\ UNCHANGED beside_agents

\* remove(), second await: async_rmtree(self._project_path)
remove_rmtree ==
    /\ remover = "probed"
    /\ IF ~server.dir
       THEN /\ remover' = "FileNotFoundError"
            /\ UNCHANGED <<server, asker>>
       ELSE /\ remover' = "ok"
            /\ Becomes(Server(FALSE, NoFiles, server.container, server.health))
    /\ UNCHANGED beside_agents

\* get_status() is called.
ask_status ==
    /\ asker.pc = "done"
    /\ asker' = [pc |-> "exists", ret |-> "", had |-> {StatusOf(server)}]
    /\ UNCHANGED <<server, remover>>
    /\ UNCHANGED beside_agents

\* get_status() awaits the probe it stands at, which answers about the
\* server as it is now.
poll_status ==
    /\ asker.pc # "done"
    /\ LET step == get_status_step(asker.pc, AnswersOf(server)[asker.pc])
       IN  asker' = [asker EXCEPT !.pc = step.next, !.ret = step.status]
    /\ UNCHANGED <<server, remover>>
    /\ UNCHANGED beside_agents

\* The other agent's create(compose_yaml) with a valid document.
other_create ==
    /\ ~exists(server.files)
    /\ Becomes(Server(TRUE, [NoFiles EXCEPT ![COMPOSE_YAML] = Some(FooYaml)],
                      server.container, server.health))
    /\ UNCHANGED remover
    /\ UNCHANGED beside_agents

\* The other agent's up(): `docker compose up -d` needs the compose file.
other_up ==
    /\ exists(server.files)
    /\ Becomes(Server(server.dir, server.files, "running",
                      IF server.container = "running" THEN server.health
                      ELSE "starting"))
    /\ UNCHANGED remover
    /\ UNCHANGED beside_agents

\* The other agent's down(): the container is stopped and removed.
other_down ==
    /\ exists(server.files)
    /\ created(server.container)
    /\ Becomes(Server(server.dir, server.files, "none", "none"))
    /\ UNCHANGED remover
    /\ UNCHANGED beside_agents

\* The container's health check reports.
server_health_changes ==
    /\ server.container = "running"
    /\ \E h \in {"healthy", "unhealthy"} :
         /\ h # server.health
         /\ Becomes(Server(server.dir, server.files, server.container, h))
    /\ UNCHANGED remover
    /\ UNCHANGED beside_agents

\* The server process ends and the container stops.
server_exits ==
    /\ server.container = "running"
    /\ Becomes(Server(server.dir, server.files, "exited", "none"))
    /\ UNCHANGED remover
    /\ UNCHANGED beside_agents

NextAgents ==
    \/ remove_probe
    \/ remove_rmtree
    \/ ask_status
    \/ poll_status
    \/ other_create
    \/ other_up
    \/ other_down
    \/ server_health_changes
    \/ server_exits

----------------------------------------------------------------------------
(* Specifications.                                                         *)

\* A machine that is not running stands still in these values.
IdleProbes == [n \in {ProbeNames[i] : i \in 1..Len(ProbeNames)} |-> FALSE]

InitValidator ==
    /\ raw \in Documents
    /\ compose = NotBuilt
    /\ mc = NotConstructed
    /\ ret = NoCall
    /\ edits = 0
    /\ probes = IdleProbes
    /\ status_pc = "done"
    /\ status_ret = ""
    /\ polled = <<>>
    /\ calls = 0
    /\ project_dir = FALSE
    /\ files = NoFiles
    /\ data_dir = FALSE
    /\ container = "none"
    /\ health = "none"
    /\ pc = "idle"
    /\ last = NoOp
    /\ fresh = FALSE
    /\ script = 0
    /\ polls = NoPolls
    /\ log = <<>>
    /\ reader = ReaderIdle
    /\ chain = NoChain
    /\ watch = [d \in SubDirs |-> NoSubDir]
    /\ table = NoServers
    /\ monitor = MonitorAt("off")
    /\ clients = [ws \in WsClients |-> "absent"]
    /\ given = <<>>
    /\ result = NotParsed
    /\ again = NotParsed
    /\ servers_root = NoRoot
    /\ listing = NotListed
    /\ server = NoServer
    /\ remover = "idle"
    /\ asker = NotAsked
    /\ rotated = NotRotated
    /\ served = NotServed
    /\ iterating = NotIterating

\* latest.log as the first call finds it: empty, or with a line in it.
InitLog ==
    /\ log \in {<<>>} \cup LogLines
    /\ reader = ReaderIdle
    /\ chain = NoChain
    /\ raw = [services |-> None]
    /\ compose = NotBuilt
    /\ mc = NotConstructed
    /\ ret = NoCall
    /\ edits = 0
    /\ probes = IdleProbes
    /\ status_pc = "done"
    /\ status_ret = ""
    /\ polled = <<>>
    /\ calls = 0
    /\ project_dir = FALSE
    /\ files = NoFiles
    /\ data_dir = FALSE
    /\ container = "none"
    /\ health = "none"
    /\ pc = "idle"
    /\ last = NoOp
    /\ fresh = FALSE
    /\ script = 0
    /\ polls = NoPolls
    /\ watch = [d \in SubDirs |-> NoSubDir]
    /\ table = NoServers
    /\ monitor = MonitorAt("off")
    /\ clients = [ws \in WsClients |-> "absent"]
    /\ given = <<>>
    /\ result = NotParsed
    /\ again = NotParsed
    /\ servers_root = NoRoot
    /\ listing = NotListed
    /\ server = NoServer
    /\ remover = "idle"
    /\ asker = NotAsked
    /\ rotated = NotRotated
    /\ served = NotServed
    /\ iterating = NotIterating

\* The watcher starts on an empty root with an empty table and nobody connected.
InitWatcher ==
    /\ watch = [d \in SubDirs |-> NoSubDir]
    /\ table = NoServers
    /\ monitor = MonitorAt("scan")
    /\ clients = [ws \in WsClients |-> "absent"]
    /\ log = <<>>
    /\ reader = ReaderIdle
    /\ chain = NoChain
    /\ raw = [services |-> None]
    /\ compose = NotBuilt
    /\ mc = NotConstructed
    /\ ret = NoCall
    /\ edits = 0
    /\ probes = IdleProbes
    /\ status_pc = "done"
    /\ status_ret = ""
    /\ polled = <<>>
    /\ calls = 0
    /\ project_dir = FALSE
    /\ files = NoFiles
    /\ data_dir = FALSE
    /\ container = "none"
    /\ health = "none"
    /\ pc = "idle"
    /\ last = NoOp
    /\ fresh = FALSE
    /\ script = 0
    /\ polls = NoPolls
    /\ given = <<>>
    /\ result = NotParsed
    /\ again = NotParsed
    /\ servers_root = NoRoot
    /\ listing = NotListed
    /\ server = NoServer
    /\ remover = "idle"
    /\ asker = NotAsked
    /\ rotated = NotRotated
    /\ served = NotServed
    /\ iterating = NotIterating

\* The watcher starts on a root that holds anything, with an empty table.
InitDelivery ==
    /\ watch \in { w \in [SubDirs -> UNION { WatchStates(d) : d \in SubDirs }] :
                     \A d \in SubDirs : w[d] \in WatchStates(d) }
    /\ table = NoServers
    /\ monitor = MonitorAt("scan")
    /\ clients = [ws \in WsClients |-> "absent"]
    /\ log = <<>>
    /\ reader = ReaderIdle
    /\ chain = NoChain
    /\ raw = [services |-> None]
    /\ compose = NotBuilt
    /\ mc = NotConstructed
    /\ ret = NoCall
    /\ edits = 0
    /\ probes = IdleProbes
    /\ status_pc = "done"
    /\ status_ret = ""
    /\ polled = <<>>
    /\ calls = 0
    /\ project_dir = FALSE
    /\ files = NoFiles
    /\ data_dir = FALSE
    /\ container = "none"
    /\ health = "none"
    /\ pc = "idle"
    /\ last = NoOp
    /\ fresh = FALSE
    /\ script = 0
    /\ polls = NoPolls
    /\ given = <<>>
    /\ result = NotParsed
    /\ again = NotParsed
    /\ servers_root = NoRoot
    /\ listing = NotListed
    /\ server = NoServer
    /\ remover = "idle"
    /\ asker = NotAsked
    /\ rotated = NotRotated
    /\ served = NotServed
    /\ iterating = NotIterating

\* An entry of a ports or volumes list, or an environment list, not parsed yet.
InitPorts ==
    /\ given \in PortInputs \cup VolumeInputs \cup EnvironmentInputs
    /\ result = NotParsed
    /\ again = NotParsed
    /\ probes = IdleProbes
    /\ status_pc = "done"
    /\ status_ret = ""
    /\ polled = <<>>
    /\ calls = 0
    /\ raw = [services |-> None]
    /\ compose = NotBuilt
    /\ mc = NotConstructed
    /\ ret = NoCall
    /\ edits = 0
    /\ project_dir = FALSE
    /\ files = NoFiles
    /\ data_dir = FALSE
    /\ container = "none"
    /\ health = "none"
    /\ pc = "idle"
    /\ last = NoOp
    /\ fresh = FALSE
    /\ script = 0
    /\ polls = NoPolls
    /\ log = <<>>
    /\ reader = ReaderIdle
    /\ chain = NoChain
    /\ watch = [d \in SubDirs |-> NoSubDir]
    /\ table = NoServers
    /\ monitor = MonitorAt("off")
    /\ clients = [ws \in WsClients |-> "absent"]
    /\ servers_root = NoRoot
    /\ listing = NotListed
    /\ server = NoServer
    /\ remover = "idle"
    /\ asker = NotAsked
    /\ rotated = NotRotated
    /\ served = NotServed
    /\ iterating = NotIterating

\* The content of a statistics file, not parsed yet.
InitStats ==
    /\ given \in NetDevInputs \cup MemoryStatInputs \cup IoStatInputs
                 \cup CgroupInputs
    /\ result = NotParsed
    /\ again = NotParsed
    /\ probes = IdleProbes
    /\ status_pc = "done"
    /\ status_ret = ""
    /\ polled = <<>>
    /\ calls = 0
    /\ raw = [services |-> None]
    /\ compose = NotBuilt
    /\ mc = NotConstructed
    /\ ret = NoCall
    /\ edits = 0
    /\ project_dir = FALSE
    /\ files = NoFiles
    /\ data_dir = FALSE
    /\ container = "none"
    /\ health = "none"
    /\ pc = "idle"
    /\ last = NoOp
    /\ fresh = FALSE
    /\ script = 0
    /\ polls = NoPolls
    /\ log = <<>>
    /\ reader = ReaderIdle
    /\ chain = NoChain
    /\ watch = [d \in SubDirs |-> NoSubDir]
    /\ table = NoServers
    /\ monitor = MonitorAt("off")
    /\ clients = [ws \in WsClients |-> "absent"]
    /\ servers_root = NoRoot
    /\ listing = NotListed
    /\ server = NoServer
    /\ remover = "idle"
    /\ asker = NotAsked
    /\ rotated = NotRotated
    /\ served = NotServed
    /\ iterating = NotIterating

\* The servers root before anything is in it.
InitRegistry ==
    /\ given = <<>>
    /\ result = NotParsed
    /\ again = NotParsed
    /\ probes = IdleProbes
    /\ status_pc = "done"
    /\ status_ret = ""
    /\ polled = <<>>
    /\ calls = 0
    /\ raw = [services |-> None]
    /\ compose = NotBuilt
    /\ mc = NotConstructed
    /\ ret = NoCall
    /\ edits = 0
    /\ project_dir = FALSE
    /\ files = NoFiles
    /\ data_dir = FALSE
    /\ container = "none"
    /\ health = "none"
    /\ pc = "idle"
    /\ last = NoOp
    /\ fresh = FALSE
    /\ script = 0
    /\ polls = NoPolls
    /\ log = <<>>
    /\ reader = ReaderIdle
    /\ chain = NoChain
    /\ watch = [d \in SubDirs |-> NoSubDir]
    /\ table = NoServers
    /\ monitor = MonitorAt("off")
    /\ clients = [ws \in WsClients |-> "absent"]
    /\ servers_root = NoRoot
    /\ listing = NotListed
    /\ server = NoServer
    /\ remover = "idle"
    /\ asker = NotAsked
    /\ rotated = NotRotated
    /\ served = NotServed
    /\ iterating = NotIterating

\* No server yet, no call in progress.
InitAgents ==
    /\ given = <<>>
    /\ result = NotParsed
    /\ again = NotParsed
    /\ probes = IdleProbes
    /\ status_pc = "done"
    /\ status_ret = ""
    /\ polled = <<>>
    /\ calls = 0
    /\ raw = [services |-> None]
    /\ compose = NotBuilt
    /\ mc = NotConstructed
    /\ ret = NoCall
    /\ edits = 0
    /\ project_dir = FALSE
    /\ files = NoFiles
    /\ data_dir = FALSE
    /\ container = "none"
    /\ health = "none"
    /\ pc = "idle"
    /\ last = NoOp
    /\ fresh = FALSE
    /\ script = 0
    /\ polls = NoPolls
    /\ log = <<>>
    /\ reader = ReaderIdle
    /\ chain = NoChain
    /\ watch = [d \in SubDirs |-> NoSubDir]
    /\ table = NoServers
    /\ monitor = MonitorAt("off")
    /\ clients = [ws \in WsClients |-> "absent"]
    /\ servers_root = NoRoot
    /\ listing = NotListed
    /\ server = NoServer
    /\ remover = "idle"
    /\ asker = NotAsked
    /\ rotated = NotRotated
    /\ served = NotServed
    /\ iterating = NotIterating

InitFold ==
    /\ probes \in Answers
    /\ status_pc = "exists"
    /\ status_ret = ""
    /\ polled = <<>>
    /\ calls = 0
    /\ raw = [services |-> None]
    /\ compose = NotBuilt
    /\ mc = NotConstructed
    /\ ret = NoCall
    /\ edits = 0
    /\ project_dir = FALSE
    /\ files = NoFiles
    /\ data_dir = FALSE
    /\ container = "none"
    /\ health = "none"
    /\ pc = "idle"
    /\ last = NoOp
    /\ fresh = FALSE
    /\ script = 0
    /\ polls = NoPolls
    /\ log = <<>>
    /\ reader = ReaderIdle
    /\ chain = NoChain
    /\ watch = [d \in SubDirs |-> NoSubDir]
    /\ table = NoServers
    /\ monitor = MonitorAt("off")
    /\ clients = [ws \in WsClients |-> "absent"]
    /\ given = <<>>
    /\ result = NotParsed
    /\ again = NotParsed
    /\ servers_root = NoRoot
    /\ listing = NotListed
    /\ server = NoServer
    /\ remover = "idle"
    /\ asker = NotAsked
    /\ rotated = NotRotated
    /\ served = NotServed
    /\ iterating = NotIterating

\* Either no project directory at all, or a directory that is there already
\* with some of the four compose files in it; no container yet.
InitLifecycle ==
    /\ project_dir \in BOOLEAN
    /\ files \in [1..Len(Candidates) -> {None, Some(LegacyYaml)}]
    /\ data_dir \in BOOLEAN
    /\ ~project_dir => files = NoFiles /\ ~data_dir
    /\ container = "none"
    /\ health = "none"
    /\ pc = "idle"
    /\ last = NoOp
    /\ fresh = FALSE
    /\ script = IF project_dir THEN OFF_SCRIPT ELSE 0
    /\ polls = NoPolls
    /\ raw = [services |-> None]
    /\ compose = NotBuilt
    /\ mc = NotConstructed
    /\ ret = NoCall
    /\ edits = 0
    /\ probes = IdleProbes
    /\ status_pc = "done"
    /\ status_ret = ""
    /\ polled = <<>>
    /\ calls = 0
    /\ log = <<>>
    /\ reader = ReaderIdle
    /\ chain = NoChain
    /\ watch = [d \in SubDirs |-> NoSubDir]
    /\ table = NoServers
    /\ monitor = MonitorAt("off")
    /\ clients = [ws \in WsClients |-> "absent"]
    /\ given = <<>>
    /\ result = NotParsed
    /\ again = NotParsed
    /\ servers_root = NoRoot
    /\ listing = NotListed
    /\ server = NoServer
    /\ remover = "idle"
    /\ asker = NotAsked
    /\ rotated = NotRotated
    /\ served = NotServed
    /\ iterating = NotIterating

\* The server has no project directory yet.
InitFresh ==
    /\ project_dir = FALSE
    /\ files = NoFiles
    /\ data_dir = FALSE
    /\ container = "none"
    /\ health = "none"
    /\ pc = "idle"
    /\ last = NoOp
    /\ fresh = FALSE
    /\ script = 0
    /\ polls = NoPolls
    /\ raw = [services |-> None]
    /\ compose = NotBuilt
    /\ mc = NotConstructed
    /\ ret = NoCall
    /\ edits = 0
    /\ probes = IdleProbes
    /\ status_pc = "done"
    /\ status_ret = ""
    /\ polled = <<>>
    /\ calls = 0
    /\ log = <<>>
    /\ reader = ReaderIdle
    /\ chain = NoChain
    /\ watch = [d \in SubDirs |-> NoSubDir]
    /\ table = NoServers
    /\ monitor = MonitorAt("off")
    /\ clients = [ws \in WsClients |-> "absent"]
    /\ given = <<>>
    /\ result = NotParsed
    /\ again = NotParsed
    /\ servers_root = NoRoot
    /\ listing = NotListed
    /\ server = NoServer
    /\ remover = "idle"
    /\ asker = NotAsked
    /\ rotated = NotRotated
    /\ served = NotServed
    /\ iterating = NotIterating

SpecValidator == InitValidator /\ [][NextValidator]_vars

SpecFold == InitFold /\ [][NextFold]_vars

SpecLifecycle == InitLifecycle /\ [][NextLifecycle]_vars

SpecLog == InitLog /\ [][NextLog]_vars

SpecWatcher == InitWatcher /\ [][NextWatcher]_vars

SpecPorts == InitPorts /\ [][NextPorts]_vars

SpecStats == InitStats /\ [][NextStats]_vars

SpecRegistry == InitRegistry /\ [][NextRegistry]_vars

SpecAgents == InitAgents /\ [][NextAgents]_vars

\* One agent on a server that starts with no project directory.
SpecFresh == InitFresh /\ [][NextLifecycle]_vars

SpecLogRotate == InitLog /\ [][NextLogRotate]_vars

SpecServe == InitWatcher /\ [][NextServe]_vars

SpecDelivery == InitDelivery /\ [][NextDelivery]_vars

\* The event loop runs a coroutine that is ready: a wait in progress keeps
\* polling and sleeping.
FairLifecycle ==
    SpecLifecycle /\ WF_vars(wait_poll) /\ WF_vars(wait_sleep)

----------------------------------------------------------------------------
(* Claims.                                                                 *)

\* C1: get_status folds the five probes: REMOVED if exists() is false; else
\* EXISTS if created() is false; else CREATED if running() is false; else
\* STARTING if starting() is true, whatever healthy() says; else RUNNING if
\* healthy() is false; else HEALTHY.  Checked for all 32 combinations of answers.
C1_StatusFold ==
    (status_pc = "done" /\ polled # <<>>) =>
        /\ ~probes.exists => status_ret = "REMOVED"
        /\ probes.exists /\ ~probes.created => status_ret = "EXISTS"
        /\ probes.exists /\ probes.created /\ ~probes.running => status_ret = "CREATED"
        /\ probes.exists /\ probes.created /\ probes.running /\ probes.starting
              => status_ret = "STARTING"
        /\ probes.exists /\ probes.created /\ probes.running /\ ~probes.starting
              /\ ~probes.healthy => status_ret = "RUNNING"
        /\ probes.exists /\ probes.created /\ probes.running /\ ~probes.starting
              /\ probes.healthy => status_ret = "HEALTHY"

\* get_status has returned STARTING although healthy() would have said true.
C1_Witness ==
    /\ status_pc = "done"
    /\ status_ret = "STARTING"
    /\ probes.starting /\ probes.healthy

\* C2: in a run from no project directory and no container that makes the
\* calls create, up, wait_until_healthy, restart, stop, down, remove in this
\* order, get_status right after each call returns EXISTS, STARTING, HEALTHY,
\* STARTING, CREATED, EXISTS, REMOVED.
ExpectedStatus ==
    <<"EXISTS", "STARTING", "HEALTHY", "STARTING", "CREATED", "EXISTS", "REMOVED">>

C2_LifecycleStatuses ==
    (fresh /\ script \in 1..Len(Script)) => Status = ExpectedStatus[script]

\* the whole scripted run has been made and remove has just returned
C2_Witness == fresh /\ script = Len(Script) /\ last.op = "remove"

\* C3: remove on a server that has a running or stopped container raises
\* RuntimeError and leaves the project directory and its files in place; with
\* no container the project directory is gone afterwards and exists() is false.
C3_RemoveGuard ==
    [][ remove =>
          /\ container # "none" =>
                /\ last'.outcome = "RuntimeError"
                /\ project_dir' = project_dir /\ files' = files
                /\ data_dir' = data_dir
          /\ container = "none" =>
                /\ ~project_dir' /\ ~data_dir'
                /\ ~exists(files')
                /\ project_dir => last'.outcome = "ok" ]_vars

\* remove has just been refused for a stopped container; the compose file stays
C3_Witness ==
    /\ fresh /\ last.op = "remove" /\ last.outcome = "RuntimeError"
    /\ container = "exited"
    /\ project_dir /\ exists(files)

\* C4: wait_until_healthy begun while no container is running raises
\* RuntimeError at once: healthy() is not polled and there is no sleep.
C4_WaitNotRunning ==
    [][ (wait_begin /\ container # "running") =>
          /\ last' = [op |-> "wait_until_healthy", arg |-> NoArg,
                      outcome |-> "RuntimeError"]
          /\ pc' = "idle"
          /\ polls'.count = 0 /\ polls'.sleeps = 0 ]_vars

\* the wait has just been refused for a stopped container
C4_Witness ==
    /\ fresh /\ last.op = "wait_until_healthy" /\ last.outcome = "RuntimeError"
    /\ container = "exited"
    /\ polls = NoPolls

\* C5: begun on a running server, wait_until_healthy returns exactly when a
\* poll of healthy() says true: a poll that says false is followed by a sleep
\* and another poll, a return follows a poll that said true, and the wait
\* ends if the server becomes healthy and stays so.
C5_WaitReturnsOnHealthy ==
    /\ [](fresh /\ last.op = "wait_until_healthy" /\ last.outcome = "ok"
            => polls.count >= 1 /\ polls.last)
    /\ [][ wait_poll =>
             IF container = "running" /\ health = "healthy"
             THEN pc' = "idle" /\ last'.outcome = "ok"
             ELSE pc' = "wait_sleep" /\ last' = last ]_vars
    /\ (<>[](container = "running" /\ health = "healthy") => []<>(pc = "idle"))

\* the wait has returned after at least one sleep
C5_Witness ==
    /\ fresh /\ last.op = "wait_until_healthy" /\ last.outcome = "ok"
    /\ polls.sleeps >= 1 /\ polls.last

\* The YAML inputs that pass Minecraft validation with server name "foo".
ValidForFoo == { FooYaml, FooYamlDefaultPorts }

\* C6: update_compose_file raises RuntimeError when a container exists (also
\* for invalid YAML), else ValueError for YAML that is invalid or names another
\* server, else FileNotFoundError when no compose file is there; on each of
\* these errors no file is changed or created.
C6_UpdateErrors ==
    [][ \A y \in YamlInputs :
          (last'.op = "update_compose_file" /\ last'.arg = y
             /\ update_compose_file(y)) =>
          /\ last'.outcome =
                IF container # "none" THEN "RuntimeError"
                ELSE IF y \notin ValidForFoo THEN "ValueError"
                ELSE IF \A i \in 1..Len(Candidates) : files[i] = None
                     THEN "FileNotFoundError"
                     ELSE "ok"
          /\ last'.outcome # "ok" =>
                /\ files' = files
                /\ project_dir' = project_dir /\ data_dir' = data_dir ]_vars

\* an update with invalid YAML has just been refused because a container exists
C6_Witness ==
    /\ fresh /\ last.op = "update_compose_file" /\ last.outcome = "RuntimeError"
    /\ last.arg = Malformed
    /\ container # "none"
    /\ exists(files)

HasTarget(ports, target) ==
    \E i \in 1..Len(ports) : PyStr(ports[i].target) = target

MeetsInvariants(compose_obj) ==
    /\ compose_obj.services # None
    /\ "mc" \in DOMAIN compose_obj.services[1]
    /\ LET svc == compose_obj.services[1]["mc"] IN
        /\ svc.container_name # None
        /\ startswith(svc.container_name[1], <<"m", "c", "-">>)
        /\ svc.image # None
        /\ \E i \in 1..Len(svc.image[1]) : svc.image[1][i] = "itzg/minecraft-server"
        /\ svc.environment # None
        /\ "VERSION" \in DOMAIN svc.environment[1]
        /\ svc.ports # None
        /\ HasTarget(svc.ports[1], "25565")
        /\ HasTarget(svc.ports[1], "25575")

\* C8: MCComposeFile construction succeeds if and only if the document has a
\* service mc whose container_name starts with mc-, whose image contains
\* itzg/minecraft-server, whose environment is a mapping with the key VERSION
\* and whose ports have a target 25565 and a target 25575; else ValueError.
C8_ConstructIffInvariants ==
    mc.tag # "unbuilt" => (mc.tag = "ok" <=> MeetsInvariants(compose))

\* The validator's errors in the order of its checks.
CheckOrder ==
    <<"Could not find services in compose file",
      "Could not find service mc in compose file",
      "Invalid container name in compose file",
      "Container name must start with 'mc-'",
      "Service must use itzg/minecraft-server image",
      "Invalid environment in compose file",
      "Could not find VERSION in environment",
      "Could not find ports in compose file",
      "Could not find game port (25565) in compose file",
      "Could not find rcon port (25575) in compose file">>

\* The k-th invariant is violated.  Only the first two can be read off a
\* document without services or without the service mc.
Violated(k, compose_obj) ==
    IF compose_obj.services = None THEN k = 1
    ELSE IF "mc" \notin DOMAIN compose_obj.services[1] THEN k = 2
    ELSE LET svc == compose_obj.services[1]["mc"] IN
        CASE k = 3 -> svc.container_name = None
          [] k = 4 -> svc.container_name # None
                        /\ ~startswith(svc.container_name[1], <<"m", "c", "-">>)
          [] k = 5 -> \/ svc.image = None
                      \/ \A i \in 1..Len(svc.image[1]) :
                            svc.image[1][i] # "itzg/minecraft-server"
          [] k = 6 -> svc.environment = None
          [] k = 7 -> svc.environment # None
                        /\ "VERSION" \notin DOMAIN svc.environment[1]
          [] k = 8 -> svc.ports = None
          [] k = 9 -> svc.ports # None /\ ~HasTarget(svc.ports[1], "25565")
          [] k = 10 -> svc.ports # None /\ ~HasTarget(svc.ports[1], "25575")
          [] OTHER -> FALSE

\* C9: the ten checks have ten different errors, and a document that violates
\* several invariants fails with the error of the first one in the order
\* services, mc service, container_name type, mc- prefix, image, environment
\* type, VERSION, ports, game port, rcon port.
C9_FirstViolatedCheck ==
    /\ Cardinality({ CheckOrder[k] : k \in 1..Len(CheckOrder) }) = Len(CheckOrder)
    /\ mc.tag # "unbuilt" =>
          \A k \in 1..Len(CheckOrder) :
              (Violated(k, compose) /\ \A j \in 1..(k - 1) : ~Violated(j, compose))
                  => mc.tag = "error" /\ mc.msg = CheckOrder[k]

\* a document with a wrong container name, no image and no ports has failed
\* with the container-name error
C9_Witness ==
    /\ mc.tag = "error"
    /\ mc.msg = "Container name must start with 'mc-'"
    /\ Violated(4, compose) /\ Violated(5, compose) /\ Violated(8, compose)

\* C10: on every document the validator accepts, whatever shorthand its ports
\* were written in, get_server_name, get_game_version, get_game_port and
\* get_rcon_port each return a value without raising.
C10_AccessorsTotal == (mc.tag = "ok" /\ edits = 0) => ret.tag # "raise"

\* The indices of the ports entries whose target reads as `target`.
EntriesWithTarget(ports, target) ==
    { i \in 1..Len(ports) : PyStr(ports[i].target) = target }

\* C11: get_game_port (get_rcon_port) returns the published port of the first
\* ports entry, in list order, whose target is 25565 (25575); it returns the
\* target itself when that entry has no published port; it raises when no
\* entry with that target is left after an edit.  A published port is a
\* single number here (an int, or the text of one).
C11_PortAccessors ==
    \A call \in { <<"get_game_port", "25565", 25565>>,
                  <<"get_rcon_port", "25575", 25575>> } :
      (mc.tag = "ok" /\ ret.fn = call[1]) =>
        LET ports == mc.service.ports[1]
            hits == EntriesWithTarget(ports, call[2])
        IN  IF hits = {} THEN ret.tag = "raise"
            ELSE LET first == ports[CHOOSE i \in hits : \A j \in hits : i <= j]
                 IN  IF first.published = None
                     THEN ret.tag = "ok" /\ ret.num = call[3]
                     ELSE /\ first.published[1].t = "int" =>
                               ret.tag = "ok" /\ ret.num = first.published[1].n
                          /\ (first.published[1].t = "str"
                                /\ first.published[1].s \in NumStrings) =>
                               /\ ret.tag = "ok"
                               /\ IntToStr(ret.num) = first.published[1].s

\* get_game_port has answered 9999 from the entry put in front of another
\* entry with target 25565 that publishes something else
C11_Witness ==
    /\ mc.tag = "ok" /\ edits > 0
    /\ ret.fn = "get_game_port" /\ ret.tag = "ok" /\ ret.num = 9999
    /\ LET ports == mc.service.ports[1]
       IN  /\ Cardinality(EntriesWithTarget(ports, "25565")) >= 2
           /\ \E i \in EntriesWithTarget(ports, "25565") :
                 ports[i].published # Some(StrV("9999"))

\* C12: get_logs_from_file(start) on a log of size S reads from max(0, S+start)
\* when start < 0, from 0 when start > S and from start otherwise, and returns
\* the text from that offset to the end of the file with a pointer equal to
\* the end-of-file offset.
C12_LogOffsets ==
    [][ get_logs_read =>
          LET S == reader.file_size
              start_arg == reader.arg
              offset == IF start_arg < 0
                        THEN (IF S + start_arg > 0 THEN S + start_arg ELSE 0)
                        ELSE IF start_arg > S THEN 0 ELSE start_arg
          IN  /\ reader'.outcome = "ok"
              /\ reader'.at = offset
              /\ reader'.content = decode_utf8(SubSeq(log, offset + 1, Len(log))).text
              /\ reader'.pointer = Len(log) ]_vars

\* C13: a caller that starts at 0 and feeds each returned pointer into its
\* next call, on a log that is only appended to, gets pointers that never
\* decrease, and each call returns exactly what was appended since the call
\* before: all contents together are the log up to the last pointer, and all
\* player messages together are the player messages of that text, also when
\* a line is appended between a call's size measurement and its read.
C13_AppendOnlyPolling ==
    (chain.ok /\ chain.calls >= 1 /\ reader.pc = "idle") =>
        /\ reader.outcome = "ok"
        /\ chain.before <= reader.pointer
        /\ reader.pointer <= Len(log)
        /\ reader.content =
              decode_utf8(SubSeq(log, chain.before + 1, reader.pointer)).text
        /\ chain.text = decode_utf8(SubSeq(log, 1, reader.pointer)).text
        /\ chain.messages =
              parse_player_messages_from_log(
                  decode_utf8(SubSeq(log, 1, reader.pointer)).text)

\* the second call of a polling caller has returned a chat line that was
\* appended after the call had measured the size
C13_Witness ==
    /\ chain.ok /\ chain.calls >= 2 /\ reader.pc = "idle"
    /\ reader.pointer > reader.file_size
    /\ Len(reader.messages) >= 1
    /\ Len(chain.messages) >= 2

\* The entries of a notification list that are about one server name.
EntriesAbout(name) ==
    SelectSeq(monitor.notification, LAMBDA entry : entry.name = name)

\* C14: when a poll's scan differs from the persisted table, the notification
\* list holds, for each name, exactly: one `new` entry with the scanned port
\* if the name is in the scan and not in the table; one `updated` entry with
\* the new port if it is in both with different ports; one `removed` entry
\* with the stored port if it is in the table and not in the scan; and no
\* entry if its port is unchanged.
C14_NotificationDiff ==
    monitor.pc = "notify" =>
        \A name \in {FOO, BAR} :
            LET scanned == name \in DOMAIN monitor.new_servers
                stored == name \in DOMAIN monitor.stored_servers
            IN  EntriesAbout(name) =
                  IF scanned /\ ~stored
                  THEN <<[type |-> "new", name |-> name,
                          port |-> monitor.new_servers[name]]>>
                  ELSE IF scanned /\ stored
                          /\ monitor.new_servers[name] # monitor.stored_servers[name]
                  THEN <<[type |-> "updated", name |-> name,
                          port |-> monitor.new_servers[name]]>>
                  ELSE IF stored /\ ~scanned
                  THEN <<[type |-> "removed", name |-> name,
                          port |-> monitor.stored_servers[name]]>>
                  ELSE <<>>

\* A cycle whose list carries an updated server and a removed one.
C14_Witness ==
    /\ monitor.pc = "notify"
    /\ \E i \in 1..Len(monitor.notification) :
           monitor.notification[i].type = "updated"
    /\ \E i \in 1..Len(monitor.notification) :
           monitor.notification[i].type = "removed"

PublishedGamePort(entry) ==
    LET parsed == convert_str_port_to_obj(entry)
    IN  IF parsed.tag = "ok" /\ parsed.port.target # None
           /\ PyStr(parsed.port.target) = "25565"
           /\ parsed.port.published # None
           /\ PyStr(parsed.port.published) \in NumStrings
        THEN <<StrToInt(PyStr(parsed.port.published))>>
        ELSE <<>>

\* C16: for every compose file under the watch root that has a service whose
\* container_name is mc-<name> and a port mapping whose target is 25565, the
\* scan maps <name> to the published host port of that mapping, in every
\* shorthand the mapping can be written in (published:target,
\* host_ip:published:target, with or without a /protocol suffix).
C16_ScanFindsGamePort ==
    [][MonitorScan =>
        \A d \in SubDirs :
            (watch[d].file \in {Candidates[i] : i \in 1..Len(Candidates)}
             /\ watch[d].doc.services # None) =>
                \A i \in 1..Len(watch[d].doc.services[1]) :
                    LET service_config == watch[d].doc.services[1][i]
                    IN  (service_config.container_name # None
                         /\ startswith(service_config.container_name[1], MC_PREFIX)
                         /\ service_config.ports # None) =>
                            \A k \in 1..Len(service_config.ports[1]) :
                                LET published ==
                                        PublishedGamePort(service_config.ports[1][k])
                                    name == slice_from(
                                        service_config.container_name[1], 3)
                                IN  (service_config.ports[1][k].tag = "str"
                                     /\ published # <<>>) =>
                                        /\ name \in DOMAIN monitor'.new_servers
                                        /\ monitor'.new_servers[name] = published[1]
    ]_vars

\* The texts of a port: a number or a lo-hi range.
PortParts == { <<"25565">>, <<"9999">>, <<"8000-9000">> }

\* The text of a shorthand: [host_ip:][published:]target[/protocol], an
\* absent part being the empty sequence.
ShorthandText(host_ip, published, target, protocol) ==
    (IF host_ip = <<>> THEN <<>> ELSE host_ip \o <<":">>)
        \o (IF published = <<>> THEN <<>> ELSE published \o <<":">>)
        \o target
        \o (IF protocol = <<>> THEN <<>> ELSE <<"/">> \o protocol)

\* The record a shorthand of these parts stands for.
ShorthandRecord(host_ip, published, target, protocol) ==
    Ports(IF host_ip = <<>> THEN None ELSE Some(host_ip[1]),
          IF published = <<>> THEN None ELSE Some(StrV(published[1])),
          Some(StrV(target[1])),
          IF protocol = <<>> THEN None ELSE Some(protocol[1]))

\* The shapes the grammar accepts: a host, which is any text, only in front of
\* a published port.
Shapes ==
    { shape \in [host_ip : PartTexts,
                 published : PortParts \cup {<<>>},
                 target : PortParts,
                 protocol : {<<>>, <<"udp">>}] :
        shape.host_ip # <<>> => shape.published # <<>> }

\* C17: a port text is parsed by splitting off an optional /protocol suffix
\* and then splitting on ":": one part gives the target, two parts published
\* and target, three parts host_ip, published and target, each port part
\* being a number or a lo-hi range; a number or a float becomes the text of
\* its integer as the target; any other text raises the invalid-port-format
\* error; and a Ports object passes through unchanged.
C17_PortGrammar ==
    (given.tag \in {"obj", "num", "flt", "str"} /\ result.tag # "none") =>
        CASE given.tag = "obj" -> result = [tag |-> "ok", port |-> given.p]
          [] given.tag = "num" ->
                \E p \in NumTable :
                    /\ p[1] = given.n
                    /\ result = [tag |-> "ok",
                                 port |-> Ports(None, None, Some(StrV(p[2])), None)]
          [] given.tag = "flt" ->
                \E p \in NumTable :
                    /\ p[1] * 10 <= given.n /\ given.n < (p[1] + 1) * 10
                    /\ result = [tag |-> "ok",
                                 port |-> Ports(None, None, Some(StrV(p[2])), None)]
          [] given.tag = "str" ->
                LET matching == { shape \in Shapes :
                                    given.s = ShorthandText(shape.host_ip,
                                        shape.published, shape.target,
                                        shape.protocol) }
                IN  IF matching = {} THEN result.tag = "raise"
                    ELSE \A shape \in matching :
                            result = [tag |-> "ok",
                                      port |-> ShorthandRecord(shape.host_ip,
                                          shape.published, shape.target,
                                          shape.protocol)]

\* The three-part form with a range and a protocol has been parsed.
C17_Witness ==
    /\ given.tag = "str"
    /\ given.s = <<"127.0.0.1", ":", "8000-9000", ":", "25565", "/", "udp">>
    /\ result.tag = "ok"
    /\ result.port.host_ip = Some("127.0.0.1")
    /\ result.port.protocol = Some("udp")

WellFormedAt(i) ==
    \E c \in 1..Len(given.lines[i]) :
        /\ given.lines[i][c] = ":"
        /\ \A j \in 1..(c - 1) : given.lines[i][j] # ":"
        /\ Len(given.lines[i]) - c >= 16
        /\ \A j \in 1..16 : given.lines[i][c + j] \in {"0", "7", "1500"}

\* C19: the net/dev parser always skips the first two lines, and a data line
\* that has no colon, fewer than 16 fields after the colon, or a field that
\* is not an integer is skipped without raising, while every other interface
\* line is parsed and kept in input order.
C19_NetDevSkipsMalformed ==
    (given.kind = "net_dev" /\ result.tag # "none") =>
        LET kept == { i \in 3..Len(given.lines) : WellFormedAt(i) }
            before(i) == Cardinality({ j \in kept : j < i })
            colon(i) == CHOOSE c \in 1..Len(given.lines[i]) :
                            /\ given.lines[i][c] = ":"
                            /\ \A j \in 1..(c - 1) : given.lines[i][j] # ":"
        IN  /\ result.tag = "ok"
            /\ Len(result.interfaces) = Cardinality(kept)
            /\ \A i \in kept :
                   /\ result.interfaces[before(i) + 1].name
                          = SubSeq(given.lines[i], 1, colon(i) - 1)
                   /\ \A j \in 1..16 :
                        \E c \in CounterTable :
                            /\ c[1] = given.lines[i][colon(i) + j]
                            /\ c[2] = result.interfaces[before(i) + 1].counters[j]

\* An interface line where the second header should be is skipped, a line
\* with text for a counter is skipped, and the interface behind it is kept.
C19_Witness ==
    /\ given.kind = "net_dev"
    /\ Len(given.lines) = 4
    /\ \A i \in 2..4 : given.lines[i] # <<>>
    /\ given.lines[2][1] = "lo"
    /\ given.lines[3][1] = "eth4"
    /\ given.lines[4][1] = "eth0"
    /\ result.tag = "ok"
    /\ Len(result.interfaces) = 1
    /\ result.interfaces[1].name = <<"eth0">>

\* The lines of memory.stat that are well formed: a key and a decimal number.
MemoryLineOk(line) == Len(line) = 2 /\ line[2] \in {"0", "7", "1500"}

\* The lines of io.stat that are well formed: a device <major>:<minor> and
\* behind it words of which every key=value has a decimal number as value.
IoLineOk(text) ==
    /\ text # <<>>
    /\ LET line == SplitOn(text, " ")
       IN  /\ Len(line[1]) = 3
           /\ line[1][2] = ":"
           /\ line[1][1] \in {"0", "7", "1500"}
           /\ line[1][3] \in {"0", "7", "1500"}
           /\ \A i \in 2..Len(line) :
                  (Len(line[i]) >= 2 /\ line[i][2] = "=") =>
                      (Len(line[i]) = 3 /\ line[i][3] \in {"0", "7", "1500"})

\* C20: in the memory.stat and io.stat parsers a malformed line (a counter
\* value that is no integer, an io.stat device that is not <major>:<minor>) is
\* skipped and the remaining lines are still parsed into the result; the parse
\* as a whole does not fail.
C20_StatSkipsMalformed ==
    /\ (given.kind = "memory_stat" /\ result.tag # "none") =>
           /\ result.tag = "ok"
           /\ \A i \in 1..Len(given.lines) :
                  (/\ MemoryLineOk(given.lines[i])
                   /\ given.lines[i][1] \in {"anon", "file"}
                   /\ \A j \in (i + 1)..Len(given.lines) :
                          ~(MemoryLineOk(given.lines[j])
                            /\ given.lines[j][1] = given.lines[i][1]))
                  => \E c \in CounterTable :
                         /\ c[1] = given.lines[i][2]
                         /\ c[2] = result.memory[given.lines[i][1]]
    /\ (given.kind = "io_stat" /\ result.tag # "none") =>
           /\ result.tag = "ok"
           /\ Len(result.devices)
                  = Cardinality({ i \in 1..Len(given.lines) :
                                    IoLineOk(given.lines[i]) })

\* A memory.stat the read succeeds on: it is there, readable, and none of its
\* lines of two words has a value that is no decimal number.
MemoryReadable(file) ==
    /\ file.state = "content"
    /\ \A i \in 1..Len(file.lines) :
           Len(file.lines[i]) = 2 => file.lines[i][2] \in {"0", "7", "1500"}

\* An io.stat the read succeeds on.
IoReadable(file) ==
    /\ file.state = "content"
    /\ \A i \in 1..Len(file.lines) :
           file.lines[i] # <<>> => IoLineOk(file.lines[i])

\* C21: read_cgroup_stats never raises and treats the two reads
\* independently: in each of the four combinations of the memory read and the
\* block-I/O read succeeding or failing (file not found, or any other
\* failure) the result carries the statistics of every read that succeeded
\* and None for every one that failed.
C21_CgroupReadsIndependent ==
    (given.kind = "cgroup" /\ result.tag # "none") =>
        /\ result.tag = "ok"
        /\ MemoryReadable(given.memory_file) => result.memory # None
        /\ ~MemoryReadable(given.memory_file) => result.memory = None
        /\ IoReadable(given.io_file) => result.block_io # None
        /\ ~IoReadable(given.io_file) => result.block_io = None
        /\ (MemoryReadable(given.memory_file)
            /\ given.memory_file.lines = <<<<"anon", "1500">>>>)
               => result.memory[1]["anon"] = 1500
        /\ (IoReadable(given.io_file)
            /\ given.io_file.lines # << <<>> >>)
               => Len(result.block_io[1]) = 1

\* Memory was read while io.stat held a device that is a name.
C21_Witness ==
    /\ given.kind = "cgroup"
    /\ given.memory_file = [state |-> "content", lines |-> <<<<"anon", "1500">>>>]
    /\ given.io_file.state = "content"
    /\ given.io_file.lines[1] # <<>>
    /\ given.io_file.lines[1][1] = "sda"
    /\ result.tag = "ok"
    /\ result.memory # None
    /\ result.block_io = None

\* An entry that holds a valid Minecraft compose file naming the entry.
HoldsServer(i) ==
    /\ servers_root[i].there
    /\ exists(servers_root[i].files)
    /\ verify_compose_yaml(DirNames[i],
           servers_root[i].files[get_compose_file_path(servers_root[i].files)][1])

\* C22: get_all_server_names returns exactly the names of the entries of the
\* servers root that hold a valid Minecraft compose file whose server name is
\* the entry's name; the other entries are left out and do not make the call
\* fail.
C22_ListsValidServers ==
    listing.tag # "none" =>
        /\ listing.tag = "ok"
        /\ listing.names = { DirNames[i] : i \in { j \in 1..Len(DirNames) : HoldsServer(j) } }

\* C23: remove()'s not-created guard is a check followed by an act with no
\* lock between them: once created() has answered false, the deletion goes
\* ahead whatever the container has become since, so that another agent's
\* up() completing in between leaves a container whose project directory
\* is gone (the state of C23_Witness).
C23_RemoveCheckThenAct ==
    [][(remover = "probed" /\ remover' # "probed" /\ server.dir) =>
          /\ remover' = "ok"
          /\ ~server'.dir
          /\ server'.files = NoFiles
          /\ server'.container = server.container]_vars

\* remove() has returned, and the container that the other agent's up()
\* made after the probe exists without its project directory.
C23_Witness ==
    /\ remover = "ok"
    /\ ~server.dir
    /\ created(server.container)

\* C24: the status get_status() returns is a status the server had at some
\* instant between the call's start and its return, also when another agent
\* changes the server while the five probes are polled.
C24_StatusWasHad ==
    (asker.pc = "done" /\ asker.ret # "") => asker.ret \in asker.had

\* C25: starting with no project directory and one agent, after any
\* sequence of create, update_compose_file and remove calls, successful or
\* failing, whenever exists() is true the compose file on disk passes
\* validation with a server name equal to the instance name, so that
\* get_compose_obj does not raise.
C25_ExistingFileIsValid ==
    (\E i \in 1..Len(Candidates) : files[i] # None) =>
        LET first == CHOOSE i \in 1..Len(Candidates) :
                        /\ files[i] # None
                        /\ \A j \in 1..(i - 1) : files[j] = None
        IN  /\ files[first][1] \in ValidForFoo
            /\ get_compose_obj(NAME, files).tag = "ok"

\* An update with a document that fails validation has just been refused,
\* and the file of an earlier create is still there.
C25_Witness ==
    /\ last.op = "update_compose_file"
    /\ last.outcome = "ValueError"
    /\ files[COMPOSE_YAML] # None

\* C26: after latest.log has been truncated or rotated, the next
\* get_logs_from_file call made with the pointer from before the rotation
\* returns the whole new file from offset 0, whatever the size of the new
\* file is relative to that pointer.
C26_StalePointerRestarts ==
    [][ (/\ reader.pc = "measured" /\ reader'.pc = "idle"
         /\ rotated.count > 0 /\ rotated.idle
         /\ rotated.after = reader.calls
         /\ reader.arg = rotated.pointer) =>
            /\ reader'.outcome = "ok"
            /\ reader'.at = 0
            /\ reader'.content = decode_utf8(log).text ]_vars

\* Somebody is sent a notification in this step.
SomeoneIsSent ==
    \E ws \in WsClients : Len(monitor'.sent[ws]) > Len(monitor.sent[ws])

\* C27: a poll cycle whose scan equals the table writes nothing to the table
\* and sends no notification: from the comparison it goes to its sleep; the
\* table is written and a notification is sent only in a cycle whose scan
\* differs from what the table held.
C27_NoChangeNoWrite ==
    [][ /\ (monitor.pc = "read" /\ monitor'.pc # "read"
            /\ monitor.new_servers = table)
               => (monitor'.pc = "sleep" /\ table' = table /\ ~SomeoneIsSent)
        /\ (table' # table \/ SomeoneIsSent)
               => /\ monitor.pc \in {"delete", "insert", "notify"}
                  /\ monitor.new_servers # monitor.stored_servers ]_vars

\* A cycle found its scan equal to a table that holds a server, with a
\* subscriber connected, and sleeps having sent nothing.
C27_Witness ==
    /\ monitor.pc = "sleep"
    /\ monitor.new_servers = monitor.stored_servers
    /\ monitor.new_servers # NoServers
    /\ table = monitor.new_servers
    /\ \E ws \in WsClients : clients[ws] = "open"
    /\ \A ws \in WsClients : monitor.sent[ws] = <<>>

\* C28: in a cycle that detects a change the table equals the new scan
\* before any subscriber is sent the cycle's notification: whenever somebody
\* is sent it, and as long as the cycle lasts after that, the table holds
\* exactly the servers of the cycle's scan.
C28_TableBeforeNotify ==
    [][ /\ SomeoneIsSent => (table = monitor.new_servers /\ table' = table)
        /\ (\E ws \in WsClients : monitor.sent[ws] # <<>>)
               => table = monitor.new_servers ]_vars

\* A subscriber has been sent the notification of a cycle whose scan holds
\* a server that the table did not hold before.
C28_Witness ==
    /\ monitor.pc = "notify"
    /\ \E ws \in WsClients : monitor.sent[ws] = <<monitor.notification>>
    /\ monitor.new_servers # NoServers
    /\ monitor.stored_servers # monitor.new_servers
    /\ table = monitor.new_servers

\* C29: a GET /all_servers handled while the monitor is replacing the table
\* is answered with the complete previous map or the complete new map, never
\* with an empty or a partial one.
C29_ReadDuringReplace ==
    (served.tag = "ok" /\ served.replacing) =>
        (served.previous \/ served.new)

\* C30: a subscriber whose send fails, or that connects or disconnects
\* while a delivery is in progress, neither stops the monitor loop nor keeps
\* the notification from the remaining subscribers: the loop never ends in
\* an error, and when a delivery is over every subscriber that was connected
\* and open from its beginning to its end, and whose own send did not fail,
\* has been sent the notification.
C30_DeliverySurvives ==
    [][ /\ monitor'.pc # "raised"
        /\ (monitor.pc = "notify" /\ monitor'.pc = "sleep") =>
              \A ws \in iterating.steady \ iterating.failed :
                  monitor.sent[ws] = <<monitor.notification>> ]_vars

====
